---- MODULE Spec2Model ----
(***************************************************************************)
(* A state-machine model of the Stream Deck driver library                 *)
(* (src/streamdeck.go): the per-model profile, brightness / fade / sleep   *)
(* and wake under the per-device sleep lock, the two input workers, the    *)
(* sleep watcher, and the paged image upload.                              *)
(*                                                                         *)
(* Every goroutine (the caller's thread, the input worker, the sleep       *)
(* watcher) is a stack of frames; one action is one step of the function   *)
(* on top of a stack.  A step holds at most one access to shared memory or *)
(* one blocking call, so that the interleavings of the unsynchronised      *)
(* reads of d.asleep are the interleavings of the code.                    *)
(***************************************************************************)
EXTENDS Integers, Sequences, FiniteSets, TLC

VARIABLES
    model,               \* which profile of Devices() the device is bound to
    faults,              \* how many times the transport may return an error in this run
    traffic,             \* which reports the device sends in this run: "mixed", "knobs", "touch", "odd" or "binary"
    closed,              \* Close() has closed the transport handle
    history,             \* what is recorded of the API calls: "off", "call" (the call under way), "pair" (and the one before); "events": the events of every report are kept
    keyState,            \* Device.keyState
    kchClosed,           \* the event channel kch has been closed
    emitted,             \* the Key events sent on kch for the report read last (under "events": since ReadKeys())
    brightness,          \* Device.brightness
    preSleepBrightness,  \* Device.preSleepBrightness
    asleep,              \* Device.asleep
    fadeDuration,        \* Device.fadeDuration, in nanoseconds
    idleTime,            \* time.Since(Device.lastActionTime), in whole seconds
    sleepMutex,          \* Device.sleepMutex: [w: the writer or "none", r: the readers]
    featureReport,       \* the last feature report buffer the transport accepted
    written,             \* the last output report (image page) the transport accepted in the caller's API call
    frames,              \* the image upload of the caller's API call: its output reports
    ioErrors,            \* how many transport calls on the open handle have returned an error
    stack,               \* per goroutine, its call stack (the last frame runs)
    ret,                 \* per goroutine, the error value of the call that returned last
    call,                \* the caller's API call in progress or completed last
    prevCall             \* the caller's API call completed before `call`

\* The variables the brightness and sleep functions leave alone.
cfgVars == <<model, history, faults, traffic, closed>>
inputVars == <<keyState, kchClosed, emitted>>
imageVars == <<written, frames>>

vars == <<cfgVars, inputVars, imageVars, brightness, preSleepBrightness, asleep, fadeDuration,
          idleTime, sleepMutex, featureReport, ioErrors, stack, ret, call, prevCall>>

----------------------------------------------------------------------------
(* Bounds of the model.                                                    *)

\* Where all events are kept, reports are read while fewer than MaxEvents
\* events have been sent.
MaxEvents == 3
\* Fade durations run from 0 to MaxFadeTicks fade ticks.
MaxFadeTicks == 2
\* time.Since(lastActionTime) is counted up to MaxIdle seconds.
MaxIdle == 2
\* The transport returns an error at most MaxIoErrors times.
MaxIoErrors == 1
\* The bytes of a key or knob in an input report run from 0 to MaxKeyByte.
MaxKeyByte == 1
\* A JPEG stream fills up to MaxPages pages, and one byte more.
MaxPages == 2
\* The pager alone is run over images of up to MaxImageLen bytes, in pages of
\* up to MaxPageSize bytes.
MaxImageLen == 4
MaxPageSize == 3

----------------------------------------------------------------------------
(* Program constants.                                                      *)

\* fadeDelay = time.Second / 30, in nanoseconds.
fadeDelay == 1000000000 \div 30

c_REV1_FIRMWARE == <<4>>
c_REV1_RESET == <<11, 99>>
c_REV1_BRIGHTNESS == <<5, 85, 170, 209, 1>>
c_REV2_FIRMWARE == <<5>>
c_REV2_RESET == <<3, 2>>
c_REV2_BRIGHTNESS == <<3, 8>>

Models == {"Original", "Mini", "V2", "XL", "Plus"}

\* The Device literals of Devices().
Profile(m) ==
    CASE m = "Original" ->
           [Columns |-> 5, Rows |-> 3, Keys |-> 15, Pixels |-> 72,
            featureReportSize |-> 17, keyStateOffset |-> 1,
            translateKeyIndex |-> "translateRightToLeft",
            readKeys |-> "readKeysForButtonsOnlyInput",
            imagePageSize |-> 7819, imagePageHeaderSize |-> 16,
            imagePageHeader |-> "rev1ImagePageHeader", toImageFormat |-> "toBMP",
            ScreenWidth |-> 0, ScreenHeight |-> 0, ScreenSegments |-> 0, Knobs |-> 0,
            screenPageSize |-> 0, screenPageHeaderSize |-> 0,
            firmwareOffset |-> 5, getFirmwareCommand |-> c_REV1_FIRMWARE,
            resetCommand |-> c_REV1_RESET,
            setBrightnessCommand |-> c_REV1_BRIGHTNESS]
      [] m = "Mini" ->
           [Columns |-> 3, Rows |-> 2, Keys |-> 6, Pixels |-> 80,
            featureReportSize |-> 17, keyStateOffset |-> 1,
            translateKeyIndex |-> "identity",
            readKeys |-> "readKeysForButtonsOnlyInput",
            imagePageSize |-> 1024, imagePageHeaderSize |-> 16,
            imagePageHeader |-> "miniImagePageHeader", toImageFormat |-> "toBMP",
            ScreenWidth |-> 0, ScreenHeight |-> 0, ScreenSegments |-> 0, Knobs |-> 0,
            screenPageSize |-> 0, screenPageHeaderSize |-> 0,
            firmwareOffset |-> 5, getFirmwareCommand |-> c_REV1_FIRMWARE,
            resetCommand |-> c_REV1_RESET,
            setBrightnessCommand |-> c_REV1_BRIGHTNESS]
      [] m = "V2" ->
           [Columns |-> 5, Rows |-> 3, Keys |-> 15, Pixels |-> 72,
            featureReportSize |-> 32, keyStateOffset |-> 4,
            translateKeyIndex |-> "identity",
            readKeys |-> "readKeysForButtonsOnlyInput",
            imagePageSize |-> 1024, imagePageHeaderSize |-> 8,
            imagePageHeader |-> "rev2ImagePageHeader", toImageFormat |-> "toJPEG",
            ScreenWidth |-> 0, ScreenHeight |-> 0, ScreenSegments |-> 0, Knobs |-> 0,
            screenPageSize |-> 0, screenPageHeaderSize |-> 0,
            firmwareOffset |-> 6, getFirmwareCommand |-> c_REV2_FIRMWARE,
            resetCommand |-> c_REV2_RESET,
            setBrightnessCommand |-> c_REV2_BRIGHTNESS]
      [] m = "XL" ->
           [Columns |-> 8, Rows |-> 4, Keys |-> 32, Pixels |-> 96,
            featureReportSize |-> 32, keyStateOffset |-> 4,
            translateKeyIndex |-> "identity",
            readKeys |-> "readKeysForButtonsOnlyInput",
            imagePageSize |-> 1024, imagePageHeaderSize |-> 8,
            imagePageHeader |-> "rev2ImagePageHeader", toImageFormat |-> "toJPEG",
            ScreenWidth |-> 0, ScreenHeight |-> 0, ScreenSegments |-> 0, Knobs |-> 0,
            screenPageSize |-> 0, screenPageHeaderSize |-> 0,
            firmwareOffset |-> 6, getFirmwareCommand |-> c_REV2_FIRMWARE,
            resetCommand |-> c_REV2_RESET,
            setBrightnessCommand |-> c_REV2_BRIGHTNESS]
      [] m = "Plus" ->
           [Columns |-> 4, Rows |-> 2, Keys |-> 30, Pixels |-> 120,
            featureReportSize |-> 32, keyStateOffset |-> 4,
            translateKeyIndex |-> "identity",
            readKeys |-> "readKeysForMultipleInputTypes",
            imagePageSize |-> 1024, imagePageHeaderSize |-> 8,
            imagePageHeader |-> "rev2ImagePageHeader", toImageFormat |-> "toJPEG",
            ScreenWidth |-> 800, ScreenHeight |-> 100, ScreenSegments |-> 4, Knobs |-> 4,
            screenPageSize |-> 1024, screenPageHeaderSize |-> 16,
            firmwareOffset |-> 6, getFirmwareCommand |-> c_REV2_FIRMWARE,
            resetCommand |-> c_REV2_RESET,
            setBrightnessCommand |-> c_REV2_BRIGHTNESS]

d == Profile(model)

----------------------------------------------------------------------------
(* Integer conversions of Go.                                              *)

Uint8(v) == v % 256

\* int8 of an integer value: two's complement wrap-around.
Int8(v) == IF v % 256 >= 128 THEN (v % 256) - 256 ELSE v % 256

Min(a, b) == IF a < b THEN a ELSE b

----------------------------------------------------------------------------
(* Goroutines and their stacks.                                            *)

Top(t) == stack[t][Len(stack[t])]

At(t, fn, pc) == Len(stack[t]) > 0 /\ Top(t).fn = fn /\ Top(t).pc = pc

\* The running frame replaced by f.
SetTop(t, f) == [stack EXCEPT ![t] = [@ EXCEPT ![Len(@)] = f]]

\* The running frame moves to pc.
Goto(t, pc) == SetTop(t, [Top(t) EXCEPT !.pc = pc])

\* The running frame moves to pc and calls f.
Invoke(t, pc, f) == [stack EXCEPT ![t] = Append([@ EXCEPT ![Len(@)].pc = pc], f)]

\* The running frame returns.
Pop(t) == [stack EXCEPT ![t] = SubSeq(@, 1, Len(@) - 1)]

\* The caller's API call ends when its outermost frame returns.
\* Is the caller's current API call recorded in `call`?
Tracked == history # "off"

CallOnReturn(t, r) ==
    IF Tracked /\ t = "caller" /\ Len(stack[t]) = 1
    THEN [call EXCEPT !.done = TRUE, !.ret = r]
    ELSE call

\* The error value handed to the frame below; an API call's error is kept in
\* `call`, the value a goroutine's outermost frame returns is dropped.
Handed(t, r) == [ret EXCEPT ![t] = IF Len(stack[t]) = 1 THEN "nil" ELSE r]

Return(t, r) ==
    /\ stack' = Pop(t)
    /\ ret' = Handed(t, r)
    /\ call' = CallOnReturn(t, r)

MutexFree == sleepMutex.w = "none" /\ sleepMutex.r = {}

Locked(t) == [sleepMutex EXCEPT !.w = t]

Unlocked == [sleepMutex EXCEPT !.w = "none"]

SetBrightnessFrame(p) == [fn |-> "SetBrightness", pc |-> "store", percent |-> p]

FadeFrame(s, e, dur) ==
    [fn |-> "Fade", pc |-> "start", start |-> s, end |-> e, duration |-> dur,
     n |-> 0, k |-> 0]

SleepFrame == [fn |-> "Sleep", pc |-> "lock"]

WakeFrame == [fn |-> "Wake", pc |-> "lock"]

----------------------------------------------------------------------------
(* The transport: a call succeeds or returns an error; on a closed handle  *)
(* it returns an error.                                                    *)

IoOutcomes ==
    IF closed THEN {FALSE}
    ELSE IF ioErrors < faults THEN {TRUE, FALSE} ELSE {TRUE}

IoCount(ok) == IF ok \/ closed THEN ioErrors ELSE ioErrors + 1

\* A transport call has returned an error.
ioFailed == ioErrors > 0

----------------------------------------------------------------------------
(* sendFeatureReport: the payload copied into a zeroed buffer of           *)
(* featureReportSize bytes.                                                *)

\* A sendFeatureReport that hands the payload on as it is, without the buffer.
sendFeatureReportBare(payload) == payload

sendFeatureReport(payload) ==
    [i \in 1..d.featureReportSize |-> IF i <= Len(payload) THEN payload[i] ELSE 0]

\* getFeatureReport: the buffer handed to the transport, built the same way.
getFeatureReport(payload) ==
    [i \in 1..d.featureReportSize |-> IF i <= Len(payload) THEN payload[i] ELSE 0]

\* The report SetBrightness builds: the command, then the percentage.
BrightnessReport(percent) == Append(d.setBrightnessCommand, percent)

----------------------------------------------------------------------------
(* Device.SetBrightness                                                    *)

\* A SetBrightness that forgets the clamp.
ClampMissing(percent) == percent

\* if percent > 100 { percent = 100 }
Clamp(percent) == IF percent > 100 THEN 100 ELSE percent

\* d.brightness = percent (after the clamp)
SetBrightnessStore(t) ==
    /\ At(t, "SetBrightness", "store")
    /\ brightness' = Clamp(Top(t).percent)
    /\ stack' = SetTop(t, [Top(t) EXCEPT !.percent = Clamp(Top(t).percent),
                                         !.pc = "check"])
    /\ UNCHANGED <<cfgVars, imageVars, inputVars, preSleepBrightness, asleep, fadeDuration, idleTime,
                   sleepMutex, featureReport, ioErrors, ret, call, prevCall>>

\* A SetBrightness that sends the report whether or not the device sleeps.
SetBrightnessBranchAlways(isAsleep, percent) == "send"

\* The branch taken on d.asleep && percent > 0.
SetBrightnessBranch(isAsleep, percent) ==
    IF isAsleep /\ percent > 0 THEN "lock" ELSE "send"

\* if d.asleep && percent > 0
SetBrightnessCheck(t) ==
    /\ At(t, "SetBrightness", "check")
    /\ stack' = Goto(t, SetBrightnessBranch(asleep, Top(t).percent))
    /\ UNCHANGED <<cfgVars, imageVars, inputVars, brightness, preSleepBrightness, asleep, fadeDuration,
                   idleTime, sleepMutex, featureReport, ioErrors, ret, call, prevCall>>

\* d.sleepMutex.Lock()
SetBrightnessLock(t) ==
    /\ At(t, "SetBrightness", "lock")
    /\ MutexFree
    /\ sleepMutex' = Locked(t)
    /\ stack' = Goto(t, "remember")
    /\ UNCHANGED <<cfgVars, imageVars, inputVars, brightness, preSleepBrightness, asleep, fadeDuration,
                   idleTime, featureReport, ioErrors, ret, call, prevCall>>

\* d.preSleepBrightness = percent; d.sleepMutex.Unlock(); return nil
SetBrightnessRemember(t) ==
    /\ At(t, "SetBrightness", "remember")
    /\ preSleepBrightness' = Top(t).percent
    /\ sleepMutex' = Unlocked
    /\ Return(t, "nil")
    /\ UNCHANGED <<cfgVars, imageVars, inputVars, brightness, asleep, fadeDuration, idleTime,
                   featureReport, ioErrors, prevCall>>

\* return d.sendFeatureReport(report)
SetBrightnessSend(t) ==
    /\ At(t, "SetBrightness", "send")
    /\ \E ok \in IoOutcomes :
         /\ featureReport' = IF ok
                             THEN sendFeatureReport(BrightnessReport(Top(t).percent))
                             ELSE featureReport
         /\ ioErrors' = IoCount(ok)
         /\ stack' = Pop(t)
         /\ ret' = Handed(t, IF ok THEN "nil" ELSE "err")
         /\ call' = IF Tracked /\ t = "caller"
                    THEN [CallOnReturn(t, IF ok THEN "nil" ELSE "err")
                            EXCEPT !.sent = TRUE]
                    ELSE call
    /\ UNCHANGED <<cfgVars, imageVars, inputVars, brightness, preSleepBrightness, asleep, fadeDuration,
                   idleTime, sleepMutex, prevCall>>

----------------------------------------------------------------------------
(* Device.Fade                                                             *)
(*                                                                         *)
(* current = start + k*step with step = (end - start) / n and              *)
(* n = duration / fadeDelay is kept as the exact fraction                  *)
(* (start*n + k*(end - start)) / n; the float64 rounding of the repeated   *)
(* addition is not modelled.                                               *)

\* duration / fadeDelay: integer division of two time.Durations.
FadeTicks(duration) == duration \div fadeDelay

\* current rounded to the nearest integer, halves away from zero.
FadeCurrentRounded(f) ==
    IF f.n = 0 THEN f.start
    ELSE LET num == 2 * (f.start * f.n + f.k * (f.end - f.start)) + f.n
         IN  IF num >= 0 THEN num \div (2 * f.n) ELSE -((-num) \div (2 * f.n))

\* current truncated toward zero (a float64 to integer conversion).
FadeCurrent(f) ==
    IF f.n = 0 THEN f.start
    ELSE LET num == f.start * f.n + f.k * (f.end - f.start)
         IN  IF num >= 0 THEN num \div f.n ELSE -((-num) \div f.n)

\* A loop that goes on until current has passed end.
FadeContinuesToEnd(f) ==
    \/ f.start < f.end /\ Int8(FadeCurrent(f)) <= Int8(f.end)
    \/ f.start > f.end /\ Int8(FadeCurrent(f)) >= Int8(f.end)

\* The loop condition of Fade.
FadeContinues(f) ==
    \/ f.start < f.end /\ Int8(FadeCurrent(f)) < Int8(f.end)
    \/ f.start > f.end /\ Int8(FadeCurrent(f)) > Int8(f.end)

\* step := ...; if step is +Inf or -Inf { return nil }
FadeStart(t) ==
    /\ At(t, "Fade", "start")
    /\ LET n == FadeTicks(Top(t).duration)
       IN  IF n = 0 /\ Top(t).start # Top(t).end
           THEN Return(t, "nil")
           ELSE /\ stack' = SetTop(t, [Top(t) EXCEPT !.n = n, !.pc = "loop"])
                /\ UNCHANGED <<ret, call>>
    /\ UNCHANGED <<cfgVars, imageVars, inputVars, brightness, preSleepBrightness, asleep, fadeDuration,
                   idleTime, sleepMutex, featureReport, ioErrors, prevCall>>

\* The loop test, and d.SetBrightness(uint8(current)) when it passes.
FadeLoop(t) ==
    /\ At(t, "Fade", "loop")
    /\ IF FadeContinues(Top(t))
       THEN /\ stack' = Invoke(t, "tick", SetBrightnessFrame(Uint8(FadeCurrent(Top(t)))))
            /\ UNCHANGED <<ret, call>>
       ELSE Return(t, "nil")
    /\ UNCHANGED <<cfgVars, imageVars, inputVars, brightness, preSleepBrightness, asleep, fadeDuration,
                   idleTime, sleepMutex, featureReport, ioErrors, prevCall>>

\* A Fade that drops the error of a step and goes on to the next tick.
FadeTickGoesOn(t) ==
    /\ At(t, "Fade", "tick")
    /\ stack' = SetTop(t, [Top(t) EXCEPT !.k = @ + 1, !.pc = "loop"])
    /\ ret' = [ret EXCEPT ![t] = "nil"]
    /\ UNCHANGED <<cfgVars, imageVars, inputVars, brightness, preSleepBrightness, asleep,
                   fadeDuration, idleTime, sleepMutex, featureReport, ioErrors, call,
                   prevCall>>

\* if err != nil { return err }; time.Sleep(fadeDelay); current += step
FadeTick(t) ==
    /\ At(t, "Fade", "tick")
    /\ IF ret[t] = "err"
       THEN Return(t, "err")
       ELSE /\ stack' = SetTop(t, [Top(t) EXCEPT !.k = @ + 1, !.pc = "loop"])
            /\ UNCHANGED <<ret, call>>
    /\ UNCHANGED <<cfgVars, imageVars, inputVars, brightness, preSleepBrightness, asleep, fadeDuration,
                   idleTime, sleepMutex, featureReport, ioErrors, prevCall>>

----------------------------------------------------------------------------
(* Device.Sleep                                                            *)

\* d.sleepMutex.Lock()
SleepLock(t) ==
    /\ At(t, "Sleep", "lock")
    /\ MutexFree
    /\ sleepMutex' = Locked(t)
    /\ stack' = Goto(t, "snapshot")
    /\ UNCHANGED <<cfgVars, imageVars, inputVars, brightness, preSleepBrightness, asleep, fadeDuration,
                   idleTime, featureReport, ioErrors, ret, call, prevCall>>

\* A Sleep that fades without taking the snapshot.
SleepSnapshotMissing(t) ==
    /\ At(t, "Sleep", "snapshot")
    /\ stack' = Invoke(t, "faded", FadeFrame(brightness, 0, fadeDuration))
    /\ UNCHANGED <<cfgVars, imageVars, inputVars, brightness, preSleepBrightness, asleep,
                   fadeDuration, idleTime, sleepMutex, featureReport, ioErrors,
                   ret, call, prevCall>>

\* d.preSleepBrightness = d.brightness; d.Fade(d.brightness, 0, d.fadeDuration)
SleepSnapshot(t) ==
    /\ At(t, "Sleep", "snapshot")
    /\ preSleepBrightness' = brightness
    /\ stack' = Invoke(t, "faded", FadeFrame(brightness, 0, fadeDuration))
    /\ UNCHANGED <<cfgVars, imageVars, inputVars, brightness, asleep, fadeDuration, idleTime, sleepMutex,
                   featureReport, ioErrors, ret, call, prevCall>>

\* if err != nil { return err }; d.asleep = true; d.SetBrightness(0)
SleepFaded(t) ==
    /\ At(t, "Sleep", "faded")
    /\ IF ret[t] = "err"
       THEN /\ sleepMutex' = Unlocked
            /\ Return(t, "err")
            /\ UNCHANGED asleep
       ELSE /\ asleep' = TRUE
            /\ stack' = Invoke(t, "written", SetBrightnessFrame(0))
            /\ UNCHANGED <<sleepMutex, ret, call>>
    /\ UNCHANGED <<cfgVars, imageVars, inputVars, brightness, preSleepBrightness, fadeDuration, idleTime,
                   featureReport, ioErrors, prevCall>>

\* return d.SetBrightness(0), and the deferred d.sleepMutex.Unlock()
SleepWritten(t) ==
    /\ At(t, "Sleep", "written")
    /\ sleepMutex' = Unlocked
    /\ Return(t, ret[t])
    /\ UNCHANGED <<cfgVars, imageVars, inputVars, brightness, preSleepBrightness, asleep, fadeDuration,
                   idleTime, featureReport, ioErrors, prevCall>>

----------------------------------------------------------------------------
(* Device.Wake                                                             *)

\* d.sleepMutex.Lock()
WakeLock(t) ==
    /\ At(t, "Wake", "lock")
    /\ MutexFree
    /\ sleepMutex' = Locked(t)
    /\ stack' = Goto(t, "clear")
    /\ UNCHANGED <<cfgVars, imageVars, inputVars, brightness, preSleepBrightness, asleep, fadeDuration,
                   idleTime, featureReport, ioErrors, ret, call, prevCall>>

\* d.asleep = false; d.Fade(0, d.preSleepBrightness, d.fadeDuration)
WakeClear(t) ==
    /\ At(t, "Wake", "clear")
    /\ asleep' = FALSE
    /\ stack' = Invoke(t, "faded", FadeFrame(0, preSleepBrightness, fadeDuration))
    /\ UNCHANGED <<cfgVars, imageVars, inputVars, brightness, preSleepBrightness, fadeDuration, idleTime,
                   sleepMutex, featureReport, ioErrors, ret, call, prevCall>>

\* if err != nil { return err }; d.lastActionTime = time.Now();
\* d.SetBrightness(d.preSleepBrightness)
WakeFaded(t) ==
    /\ At(t, "Wake", "faded")
    /\ IF ret[t] = "err"
       THEN /\ sleepMutex' = Unlocked
            /\ Return(t, "err")
            /\ UNCHANGED idleTime
       ELSE /\ idleTime' = 0
            /\ stack' = Invoke(t, "written", SetBrightnessFrame(preSleepBrightness))
            /\ UNCHANGED <<sleepMutex, ret, call>>
    /\ UNCHANGED <<cfgVars, imageVars, inputVars, brightness, preSleepBrightness, asleep, fadeDuration,
                   featureReport, ioErrors, prevCall>>

\* return d.SetBrightness(d.preSleepBrightness), and the deferred Unlock()
WakeWritten(t) ==
    /\ At(t, "Wake", "written")
    /\ sleepMutex' = Unlocked
    /\ Return(t, ret[t])
    /\ UNCHANGED <<cfgVars, imageVars, inputVars, brightness, preSleepBrightness, asleep, fadeDuration,
                   idleTime, featureReport, ioErrors, prevCall>>

\* One step of SetBrightness, Fade, Sleep or Wake on goroutine t.
BrightnessStep(t) ==
    \/ SetBrightnessStore(t)
    \/ SetBrightnessCheck(t)
    \/ SetBrightnessLock(t)
    \/ SetBrightnessRemember(t)
    \/ SetBrightnessSend(t)
    \/ FadeStart(t)
    \/ FadeLoop(t)
    \/ FadeTick(t)
    \/ SleepLock(t)
    \/ SleepSnapshot(t)
    \/ SleepFaded(t)
    \/ SleepWritten(t)
    \/ WakeLock(t)
    \/ WakeClear(t)
    \/ WakeFaded(t)
    \/ WakeWritten(t)

----------------------------------------------------------------------------
(* Device.Reset and Device.FirmwareVersion                                 *)

ResetFrame == [fn |-> "Reset", pc |-> "send"]

FirmwareVersionFrame == [fn |-> "FirmwareVersion", pc |-> "get"]

\* return d.sendFeatureReport(d.resetCommand)
ResetSend(t) ==
    /\ At(t, "Reset", "send")
    /\ \E ok \in IoOutcomes :
         /\ featureReport' = IF ok
                             THEN sendFeatureReport(d.resetCommand)
                             ELSE featureReport
         /\ ioErrors' = IoCount(ok)
         /\ stack' = Pop(t)
         /\ ret' = Handed(t, IF ok THEN "nil" ELSE "err")
         /\ call' = IF Tracked /\ t = "caller"
                    THEN [CallOnReturn(t, IF ok THEN "nil" ELSE "err")
                            EXCEPT !.sent = TRUE]
                    ELSE call
    /\ UNCHANGED <<cfgVars, imageVars, inputVars, brightness, preSleepBrightness, asleep,
                   fadeDuration, idleTime, sleepMutex, prevCall>>

\* result, err := d.getFeatureReport(d.getFirmwareCommand), and the return of
\* the error or of the tail of the reply; featureReport keeps the buffer as it
\* was handed to the transport.
FirmwareVersionGet(t) ==
    /\ At(t, "FirmwareVersion", "get")
    /\ \E ok \in IoOutcomes :
         /\ featureReport' = IF ok
                             THEN getFeatureReport(d.getFirmwareCommand)
                             ELSE featureReport
         /\ ioErrors' = IoCount(ok)
         /\ stack' = Pop(t)
         /\ ret' = Handed(t, IF ok THEN "nil" ELSE "err")
         /\ call' = IF Tracked /\ t = "caller"
                    THEN [CallOnReturn(t, IF ok THEN "nil" ELSE "err")
                            EXCEPT !.sent = TRUE]
                    ELSE call
    /\ UNCHANGED <<cfgVars, imageVars, inputVars, brightness, preSleepBrightness, asleep,
                   fadeDuration, idleTime, sleepMutex, prevCall>>

----------------------------------------------------------------------------
(* The caller's thread: the API calls of the library user.                 *)

\* The percentages the caller passes (uint8).
Percents == {0, 1, 255}

\* The fade durations the caller sets: no tick, just below one tick, whole ticks.
FadeDurations == {0, fadeDelay - 1} \cup {k * fadeDelay : k \in 1..MaxFadeTicks}

\* What is remembered of an API call: the operation, its percentage argument,
\* d.asleep and d.brightness when it began, whether it has sent a feature
\* report, whether it has returned, and the error it returned.
NoCall == [op |-> "none", p |-> 0, asleep0 |-> FALSE, b0 |-> 0,
           sent |-> FALSE, done |-> TRUE, ret |-> "nil"]

NewCall(op, p) == [op |-> op, p |-> p, asleep0 |-> asleep,
                   b0 |-> IF op = "Sleep" THEN brightness ELSE 0,
                   sent |-> FALSE, done |-> FALSE, ret |-> "nil"]

\* What is kept of the call before: the operation, its argument and the state
\* it began in.
Before(c) == [c EXCEPT !.sent = FALSE, !.done = TRUE, !.ret = "nil"]

CallerIdle == stack["caller"] = <<>>

\* What is remembered of the image upload of an API call: the length of the
\* encoded image, and for every output report handed to the transport the key
\* (or the screen segment), the page index and the last-page flag of its
\* header, the length of its payload, and whether the transport accepted it.
NoUpload == [bytes |-> 0, writes |-> <<>>]

\* The caller begins an API call whose outermost frame is f.
Begin(op, p, f) ==
    /\ CallerIdle
    /\ stack' = [stack EXCEPT !["caller"] = <<f>>]
    /\ call' = IF Tracked THEN NewCall(op, p) ELSE call
    /\ prevCall' = IF history = "pair" THEN Before(call) ELSE prevCall
    /\ frames' = NoUpload
    /\ written' = <<>>
    /\ UNCHANGED <<cfgVars, inputVars, brightness, preSleepBrightness, asleep, fadeDuration,
                   idleTime, sleepMutex, featureReport, ioErrors, ret>>

CallSetBrightness(p) == Begin("SetBrightness", p, SetBrightnessFrame(p))

CallSleep == Begin("Sleep", 0, SleepFrame)

CallWake == Begin("Wake", 0, WakeFrame)

CallFade(s, e, dur) == Begin("Fade", 0, FadeFrame(s, e, dur))

CallReset == Begin("Reset", 0, ResetFrame)

CallFirmwareVersion == Begin("FirmwareVersion", 0, FirmwareVersionFrame)

\* Device.SetSleepFadeDuration
SetSleepFadeDuration(t) ==
    /\ CallerIdle
    /\ fadeDuration' = t
    /\ UNCHANGED <<cfgVars, imageVars, inputVars, brightness, preSleepBrightness, asleep, idleTime,
                   sleepMutex, featureReport, ioErrors, stack, ret, call, prevCall>>

----------------------------------------------------------------------------
(* Key events and key index translation.                                   *)

Key(index, pressed, holdable) ==
    [Index |-> index, Pressed |-> pressed, Holdable |-> holdable]

\* A translation that mirrors the whole index range instead of each row.
translateRightToLeftWhole(index, columns) ==
    Uint8(d.Columns * d.Rows - 1 - index)

translateRightToLeft(index, columns) ==
    LET keyCol == index % columns
    IN  Uint8((index - keyCol) + (columns - 1) - keyCol)

identity(index, columns) == index

\* d.translateKeyIndex(index, d.Columns)
translateKeyIndex(index) ==
    IF d.translateKeyIndex = "translateRightToLeft"
    THEN translateRightToLeft(index, d.Columns)
    ELSE identity(index, d.Columns)

Zeros(n) == [i \in 1..n |-> 0]

\* for i := d.keyStateOffset; i < len(buffer); i++ { buffer[i] = 0 }
\* (the byte of Go index g is element g + 1)
ZeroFrom(buffer, offset) ==
    [g \in 1..Len(buffer) |-> IF g > offset THEN 0 ELSE buffer[g]]

SetMin(S) == CHOOSE x \in S : \A y \in S : x <= y

----------------------------------------------------------------------------
(* readKeysForButtonsOnlyInput: the input worker of the Original, Mini,    *)
(* V2 / MK2 and XL.                                                        *)

ButtonsFrame ==
    [fn |-> "readKeysForButtonsOnlyInput", pc |-> "copy",
     keyBuffer |-> Zeros(d.keyStateOffset + d.Keys), i |-> 0, woke |-> FALSE]

\* The values of a key byte in this run: 0 and 1 where the reports are binary.
KeyBytes == IF traffic = "binary" THEN 0..1 ELSE 0..MaxKeyByte

\* The raw positions at which a button can go down when one finger is used:
\* all of them while every button is up, none while one is down.
FreePositions ==
    IF \A k \in 1..Len(keyState) : keyState[k] = 0
    THEN 0..(d.Columns * d.Rows - 1)
    ELSE {}

\* Reports with the button at raw position r down and all others up, for
\* every free r, and the report with all buttons up.
SingleButtonReports ==
    { [g \in 1..(d.keyStateOffset + d.Keys) |->
          IF g = 1 \/ g = d.keyStateOffset + 1 + r THEN 1 ELSE 0] :
          r \in FreePositions }
    \cup
    { [g \in 1..(d.keyStateOffset + d.Keys) |-> IF g = 1 THEN 1 ELSE 0] }

\* The reports the transport delivers: a report id, then one byte per key;
\* the first and the last key take the values of KeyBytes.
ButtonReports ==
    IF traffic = "single" THEN SingleButtonReports ELSE
    { [g \in 1..(d.keyStateOffset + d.Keys) |->
          IF g = 1 THEN 1
          ELSE IF g = d.keyStateOffset + 1 THEN a
          ELSE IF g = d.keyStateOffset + d.Keys THEN b
          ELSE 0] : a \in KeyBytes, b \in KeyBytes }

\* The events sent so far as a read leaves them: those of the report before
\* are dropped, unless the run keeps all of them.
EventLog == IF history = "events" THEN emitted ELSE <<>>

\* A run that keeps all events reads on while fewer than MaxEvents were sent.
LogHasRoom == history = "events" => Len(emitted) < MaxEvents

\* copy(d.keyState, keyBuffer[d.keyStateOffset:])
ButtonsCopy(t) ==
    /\ At(t, "readKeysForButtonsOnlyInput", "copy")
    /\ keyState' = [k \in 1..Len(keyState) |-> Top(t).keyBuffer[d.keyStateOffset + k]]
    /\ stack' = Goto(t, "read")
    /\ UNCHANGED <<cfgVars, imageVars, kchClosed, emitted, brightness, preSleepBrightness,
                   asleep, fadeDuration, idleTime, sleepMutex, featureReport,
                   ioErrors, ret, call, prevCall>>

\* A worker that closes the channel on a read error and goes on reading.
ButtonsReadGoesOn(t) ==
    /\ At(t, "readKeysForButtonsOnlyInput", "read")
    /\ \E ok \in IoOutcomes :
         /\ ioErrors' = IoCount(ok)
         /\ IF ok
            THEN \E report \in ButtonReports :
                   /\ stack' = SetTop(t, [Top(t) EXCEPT !.keyBuffer = report,
                                                        !.woke = FALSE,
                                                        !.pc = "asleep"])
                   /\ emitted' = EventLog
                   /\ LogHasRoom
                   /\ UNCHANGED kchClosed
            ELSE /\ kchClosed' = TRUE
                 /\ stack' = Goto(t, "copy")
                 /\ UNCHANGED emitted
    /\ UNCHANGED <<cfgVars, imageVars, keyState, brightness, preSleepBrightness, asleep,
                   fadeDuration, idleTime, sleepMutex, featureReport, ret, call,
                   prevCall>>

\* d.device.Read(keyBuffer); on an error close(kch) and return
ButtonsRead(t) ==
    /\ At(t, "readKeysForButtonsOnlyInput", "read")
    /\ \E ok \in IoOutcomes :
         /\ ioErrors' = IoCount(ok)
         /\ IF ok
            THEN \E report \in ButtonReports :
                   /\ stack' = SetTop(t, [Top(t) EXCEPT !.keyBuffer = report,
                                                        !.woke = FALSE,
                                                        !.pc = "asleep"])
                   /\ emitted' = EventLog
                   /\ LogHasRoom
                   /\ UNCHANGED kchClosed
            ELSE /\ kchClosed' = TRUE
                 /\ stack' = Pop(t)
                 /\ UNCHANGED emitted
    /\ UNCHANGED <<cfgVars, imageVars, keyState, brightness, preSleepBrightness, asleep,
                   fadeDuration, idleTime, sleepMutex, featureReport, ret, call,
                   prevCall>>

\* if d.asleep { _ = d.Wake() ...
ButtonsAsleep(t) ==
    /\ At(t, "readKeysForButtonsOnlyInput", "asleep")
    /\ stack' = IF asleep
                THEN Invoke(t, "woken", WakeFrame)
                ELSE Goto(t, "lock")
    /\ UNCHANGED <<cfgVars, imageVars, inputVars, brightness, preSleepBrightness, asleep,
                   fadeDuration, idleTime, sleepMutex, featureReport, ioErrors,
                   ret, call, prevCall>>

\* A parser that wakes the device and goes on to handle the report.
ButtonsWokenHandles(t) ==
    /\ At(t, "readKeysForButtonsOnlyInput", "woken")
    /\ stack' = SetTop(t, [Top(t) EXCEPT !.woke = TRUE, !.pc = "lock"])
    /\ ret' = [ret EXCEPT ![t] = "nil"]
    /\ UNCHANGED <<cfgVars, imageVars, inputVars, brightness, preSleepBrightness, asleep,
                   fadeDuration, idleTime, sleepMutex, featureReport, ioErrors,
                   call, prevCall>>

\* ... keyBuffer[i] = 0 from keyStateOffset on; continue }
ButtonsWoken(t) ==
    /\ At(t, "readKeysForButtonsOnlyInput", "woken")
    /\ stack' = SetTop(t, [Top(t) EXCEPT
                             !.keyBuffer = ZeroFrom(@, d.keyStateOffset),
                             !.woke = TRUE,
                             !.pc = "copy"])
    /\ ret' = [ret EXCEPT ![t] = "nil"]
    /\ UNCHANGED <<cfgVars, imageVars, inputVars, brightness, preSleepBrightness, asleep,
                   fadeDuration, idleTime, sleepMutex, featureReport, ioErrors,
                   call, prevCall>>

\* d.sleepMutex.Lock()
ButtonsLock(t) ==
    /\ At(t, "readKeysForButtonsOnlyInput", "lock")
    /\ MutexFree
    /\ sleepMutex' = Locked(t)
    /\ stack' = Goto(t, "active")
    /\ UNCHANGED <<cfgVars, imageVars, inputVars, brightness, preSleepBrightness, asleep,
                   fadeDuration, idleTime, featureReport, ioErrors, ret, call,
                   prevCall>>

\* A worker that stores lastActionTime and goes on to send its events with
\* the lock held.
ButtonsActiveHoldsLock(t) ==
    /\ At(t, "readKeysForButtonsOnlyInput", "active")
    /\ idleTime' = 0
    /\ stack' = SetTop(t, [Top(t) EXCEPT !.i = d.keyStateOffset, !.pc = "diff"])
    /\ UNCHANGED <<cfgVars, imageVars, inputVars, brightness, preSleepBrightness, asleep,
                   fadeDuration, sleepMutex, featureReport, ioErrors, ret, call,
                   prevCall>>

\* d.lastActionTime = time.Now(); d.sleepMutex.Unlock()
ButtonsActive(t) ==
    /\ At(t, "readKeysForButtonsOnlyInput", "active")
    /\ idleTime' = 0
    /\ sleepMutex' = Unlocked
    /\ stack' = SetTop(t, [Top(t) EXCEPT !.i = d.keyStateOffset, !.pc = "diff"])
    /\ UNCHANGED <<cfgVars, imageVars, inputVars, brightness, preSleepBrightness, asleep,
                   fadeDuration, featureReport, ioErrors, ret, call, prevCall>>

\* A comparison that passes over the first byte it is given.
ButtonsChangedAfter(keyBuffer, state, offset, from) ==
    { g \in (from + 1)..(Len(keyBuffer) - 1) : keyBuffer[g + 1] # state[g - offset + 1] }

\* The Go indices i >= from of keyBuffer with keyBuffer[i] != d.keyState[i - offset].
ButtonsChanged(keyBuffer, state, offset, from) ==
    { g \in from..(Len(keyBuffer) - 1) : keyBuffer[g + 1] # state[g - offset + 1] }

\* The loop over keyBuffer up to and including its next send on kch, or to
\* its end (the iterations that send nothing touch nothing shared).
ButtonsDiff(t) ==
    /\ At(t, "readKeysForButtonsOnlyInput", "diff")
    /\ LET f == Top(t)
           changed == ButtonsChanged(f.keyBuffer, keyState, d.keyStateOffset, f.i)
       IN  IF changed = {}
           THEN /\ stack' = Goto(t, "copy")
                /\ UNCHANGED emitted
           ELSE LET g == SetMin(changed)
                    keyIndex == Uint8(g - d.keyStateOffset)
                IN  /\ emitted' = Append(emitted,
                                         Key(translateKeyIndex(keyIndex),
                                             f.keyBuffer[g + 1] = 1, TRUE))
                    /\ stack' = SetTop(t, [f EXCEPT !.i = g + 1])
    /\ UNCHANGED <<cfgVars, imageVars, keyState, kchClosed, brightness, preSleepBrightness,
                   asleep, fadeDuration, idleTime, sleepMutex, featureReport,
                   ioErrors, ret, call, prevCall>>

ButtonsStep(t) ==
    \/ ButtonsCopy(t)
    \/ ButtonsRead(t)
    \/ ButtonsAsleep(t)
    \/ ButtonsWoken(t)
    \/ ButtonsLock(t)
    \/ ButtonsActive(t)
    \/ ButtonsDiff(t)

----------------------------------------------------------------------------
(* readKeysForMultipleInputTypes: the input worker of the Plus.            *)

INPUT_TYPE_ID_BUTTON == 0
INPUT_TYPE_ID_TOUCH == 2
INPUT_TYPE_ID_KNOB == 3
INPUT_KNOB_USAGE_PRESS == 0
INPUT_KNOB_USAGE_DIAL == 1
INPUT_KNOB_STATE_OFFSET == 5
INPUT_TOUCH_USAGE_SHORT == 1
INPUT_TOUCH_USAGE_LONG == 2
INPUT_TOUCH_USAGE_SWIPE == 3
INPUT_POSITION_TYPE_ID == 1
INPUT_POSITION_KNOB_USAGE_ID == 4
INPUT_POSITION_TOUCH_USAGE_ID == 4
INPUT_POSITION_TOUCH_X_ID == 6
INPUT_POSITION_TOUCH_X2_ID == 10
\* inputBuffer := make([]byte, 13)
InputBufferLen == 13

MultiFrame ==
    [fn |-> "readKeysForMultipleInputTypes", pc |-> "read",
     inputBuffer |-> Zeros(InputBufferLen), i |-> 0, woke |-> FALSE]

\* A 13-byte report: report id 1, the bytes f gives by Go index, zero elsewhere.
PlusReport(f) ==
    [g \in 1..InputBufferLen |->
        IF g = 1 THEN 1 ELSE IF (g - 1) \in DOMAIN f THEN f[g - 1] ELSE 0]

\* Reports of every type: buttons, a knob press, dial turns, taps, swipes, and
\* a report of no known type.
MixedReports ==
    { PlusReport((1 :> INPUT_TYPE_ID_BUTTON) @@ (4 :> a) @@ (12 :> b)) :
          a \in 0..MaxKeyByte, b \in 0..MaxKeyByte }
    \cup
    { PlusReport((1 :> INPUT_TYPE_ID_KNOB) @@ (4 :> INPUT_KNOB_USAGE_PRESS) @@ (5 :> a)) :
          a \in 0..MaxKeyByte }
    \cup
    { PlusReport((1 :> INPUT_TYPE_ID_KNOB) @@ (4 :> INPUT_KNOB_USAGE_DIAL)
                 @@ (5 :> x[1]) @@ (8 :> x[2])) :
          x \in {<<1, 0>>, <<128, 255>>} }
    \cup
    { PlusReport((1 :> INPUT_TYPE_ID_TOUCH) @@ (4 :> u) @@ (6 :> 50)) :
          u \in {INPUT_TOUCH_USAGE_SHORT, 9} }
    \cup
    { PlusReport((1 :> INPUT_TYPE_ID_TOUCH) @@ (4 :> INPUT_TOUCH_USAGE_LONG)
                 @@ (6 :> 31) @@ (7 :> 3)) }
    \cup
    { PlusReport((1 :> INPUT_TYPE_ID_TOUCH) @@ (4 :> INPUT_TOUCH_USAGE_SWIPE)
                 @@ (6 :> x[1]) @@ (7 :> x[2]) @@ (10 :> x[3]) @@ (11 :> x[4])) :
          x \in {<<50, 0, 244, 1>>, <<244, 1, 50, 0>>, <<50, 0, 60, 0>>} }
    \cup
    { PlusReport((1 :> 1)) }

\* The four knob bytes kb[1..4], at Go indices 5..8.
KnobBytes(kb) ==
    (INPUT_KNOB_STATE_OFFSET :> kb[1]) @@ (INPUT_KNOB_STATE_OFFSET + 1 :> kb[2])
    @@ (INPUT_KNOB_STATE_OFFSET + 2 :> kb[3]) @@ (INPUT_KNOB_STATE_OFFSET + 3 :> kb[4])

\* One knob turned by v, the other three at rest.
OneKnob(k, v) == [j \in 1..4 |-> IF j = k + 1 THEN v ELSE 0]

\* Dial bytes: small steps right (1, 2), small steps left as int8 (0xFC, 0xFE,
\* 0xFF), and both sides of the sign bit.
DialBytes == {1, 2, 126, 127, 128, 129, 130, 252, 254, 255}

\* Knob reports: every combination of the four knobs pressed (0..MaxKeyByte);
\* every dial byte of DialBytes on every single knob; and every combination of
\* the four dials at rest, turned by 1 and turned by 0xFC.
KnobReports ==
    { PlusReport((1 :> INPUT_TYPE_ID_KNOB) @@ (4 :> INPUT_KNOB_USAGE_PRESS) @@ KnobBytes(kb)) :
          kb \in [1..4 -> 0..MaxKeyByte] }
    \cup
    { PlusReport((1 :> INPUT_TYPE_ID_KNOB) @@ (4 :> INPUT_KNOB_USAGE_DIAL)
                 @@ KnobBytes(OneKnob(k, v))) :
          k \in 0..3, v \in DialBytes }
    \cup
    { PlusReport((1 :> INPUT_TYPE_ID_KNOB) @@ (4 :> INPUT_KNOB_USAGE_DIAL) @@ KnobBytes(kb)) :
          kb \in [1..4 -> {0, 1, 252}] }

\* The x of a tap: the ends, the second pixel and the middle of each of the
\* four 200-pixel segments of the strip, and 50.
TapXs ==
    { x \in 0..799 : x % 200 \in {0, 1, 100, 199} } \cup {50}

\* The x of a swipe's ends: both sides of multiples of 40 and the ends of the
\* strip, 50 and 500, and beyond the strip the positions on both sides of
\* 40 * 256, where x / 40 no longer fits a byte.
SwipeXs == {0, 39, 40, 50, 79, 80, 399, 400, 500, 760, 799, 10239, 10240, 10280}

\* Touch reports: a short and a long tap at every x of TapXs, and swipes
\* between the positions of SwipeXs.
TouchReports ==
    { PlusReport((1 :> INPUT_TYPE_ID_TOUCH) @@ (4 :> u)
                 @@ (6 :> x % 256) @@ (7 :> x \div 256)) :
          u \in {INPUT_TOUCH_USAGE_SHORT, INPUT_TOUCH_USAGE_LONG}, x \in TapXs }
    \cup
    { PlusReport((1 :> INPUT_TYPE_ID_TOUCH) @@ (4 :> INPUT_TOUCH_USAGE_SWIPE)
                 @@ (6 :> x % 256) @@ (7 :> x \div 256)
                 @@ (10 :> x2 % 256) @@ (11 :> x2 \div 256)) :
          x \in SwipeXs, x2 \in SwipeXs }

\* Reports outside the families the parser knows: a type byte other than
\* 0, 2 and 3; a knob report with a usage other than 0 and 1; a touch report
\* with a usage other than 1, 2 and 3.  Each comes with knob bytes and an x
\* that would give events under a known type and usage.
IllFormedReports ==
    { PlusReport((1 :> ty) @@ (4 :> u) @@ KnobBytes(OneKnob(k, 1)) @@ (12 :> b)) :
          ty \in {1, 4, 255}, u \in {0, 1}, k \in {0, 1}, b \in {0, 1} }
    \cup
    { PlusReport((1 :> INPUT_TYPE_ID_KNOB) @@ (4 :> u) @@ KnobBytes(OneKnob(k, v))) :
          u \in {2, 3, 255}, k \in 0..3, v \in {1, 252} }
    \cup
    { PlusReport((1 :> INPUT_TYPE_ID_TOUCH) @@ (4 :> u)
                 @@ (6 :> x % 256) @@ (7 :> x \div 256)) :
          u \in {0, 4, 255}, x \in {0, 50, 500} }

\* Ill-formed reports between presses and releases of the first two knobs.
OddReports ==
    IllFormedReports
    \cup
    { PlusReport((1 :> INPUT_TYPE_ID_KNOB) @@ (4 :> INPUT_KNOB_USAGE_PRESS) @@ KnobBytes(kb)) :
          kb \in { <<a, b, 0, 0>> : a \in 0..1, b \in 0..1 } }

\* Button reports with the first two buttons up or down and knob-press
\* reports with the first two knobs up or down: every byte is 0 or 1.
BinaryReports ==
    { PlusReport((1 :> INPUT_TYPE_ID_BUTTON) @@ (4 :> a) @@ (5 :> b)) :
          a \in 0..1, b \in 0..1 }
    \cup
    { PlusReport((1 :> INPUT_TYPE_ID_KNOB) @@ (4 :> INPUT_KNOB_USAGE_PRESS)
                 @@ KnobBytes(<<a, b, 0, 0>>)) :
          a \in 0..1, b \in 0..1 }

\* Button reports with the button at raw position r down and all others up,
\* for every free r, and the report with all buttons up.
SinglePlusReports ==
    { PlusReport((1 :> INPUT_TYPE_ID_BUTTON) @@ (4 + r :> 1)) :
          r \in FreePositions }
    \cup
    { PlusReport((1 :> INPUT_TYPE_ID_BUTTON)) }

\* The reports the transport delivers to the worker of the Plus.
PlusReports ==
    CASE traffic = "knobs" -> KnobReports
      [] traffic = "single" -> SinglePlusReports
      [] traffic = "binary" -> BinaryReports
      [] traffic = "touch" -> TouchReports
      [] traffic = "odd" -> OddReports
      [] OTHER -> MixedReports

\* binary.LittleEndian.Uint16(buffer[at:])
LittleEndianUint16(buffer, at) == buffer[at + 1] + 256 * buffer[at + 2]

\* ScreenSegmentWidth
\* A device that takes the width of the whole strip for that of a segment.
ScreenSegmentWidthOfStrip ==
    IF d.ScreenSegments = 0 THEN 0 ELSE d.ScreenWidth

ScreenSegmentWidth ==
    IF d.ScreenSegments = 0 THEN 0 ELSE d.ScreenWidth \div d.ScreenSegments

MultiRead(t) ==
    /\ At(t, "readKeysForMultipleInputTypes", "read")
    /\ \E ok \in IoOutcomes :
         /\ ioErrors' = IoCount(ok)
         /\ IF ok
            THEN \E report \in PlusReports :
                   /\ stack' = SetTop(t, [Top(t) EXCEPT !.inputBuffer = report,
                                                        !.woke = FALSE,
                                                        !.pc = "asleep"])
                   /\ emitted' = EventLog
                   /\ LogHasRoom
                   /\ UNCHANGED kchClosed
            ELSE /\ kchClosed' = TRUE
                 /\ stack' = Pop(t)
                 /\ UNCHANGED emitted
    /\ UNCHANGED <<cfgVars, imageVars, keyState, brightness, preSleepBrightness, asleep,
                   fadeDuration, idleTime, sleepMutex, featureReport, ret, call,
                   prevCall>>

MultiAsleep(t) ==
    /\ At(t, "readKeysForMultipleInputTypes", "asleep")
    /\ stack' = IF asleep
                THEN Invoke(t, "woken", WakeFrame)
                ELSE Goto(t, "lock")
    /\ UNCHANGED <<cfgVars, imageVars, inputVars, brightness, preSleepBrightness, asleep,
                   fadeDuration, idleTime, sleepMutex, featureReport, ioErrors,
                   ret, call, prevCall>>

\* inputBuffer[i] = 0 from keyStateOffset on; continue
MultiWoken(t) ==
    /\ At(t, "readKeysForMultipleInputTypes", "woken")
    /\ stack' = SetTop(t, [Top(t) EXCEPT
                             !.inputBuffer = ZeroFrom(@, d.keyStateOffset),
                             !.woke = TRUE,
                             !.pc = "read"])
    /\ ret' = [ret EXCEPT ![t] = "nil"]
    /\ UNCHANGED <<cfgVars, imageVars, inputVars, brightness, preSleepBrightness, asleep,
                   fadeDuration, idleTime, sleepMutex, featureReport, ioErrors,
                   call, prevCall>>

MultiLock(t) ==
    /\ At(t, "readKeysForMultipleInputTypes", "lock")
    /\ MutexFree
    /\ sleepMutex' = Locked(t)
    /\ stack' = Goto(t, "active")
    /\ UNCHANGED <<cfgVars, imageVars, inputVars, brightness, preSleepBrightness, asleep,
                   fadeDuration, idleTime, featureReport, ioErrors, ret, call,
                   prevCall>>

\* The branch on inputBuffer[INPUT_POSITION_TYPE_ID].
MultiBranch(inputType) ==
    CASE inputType = INPUT_TYPE_ID_BUTTON -> "buttons"
      [] inputType = INPUT_TYPE_ID_KNOB -> "knobs"
      [] inputType = INPUT_TYPE_ID_TOUCH -> "touch"
      [] OTHER -> "read"

\* d.lastActionTime = time.Now(); Unlock; inputType := inputBuffer[1]
MultiActive(t) ==
    /\ At(t, "readKeysForMultipleInputTypes", "active")
    /\ idleTime' = 0
    /\ sleepMutex' = Unlocked
    /\ LET f == Top(t)
           to == MultiBranch(f.inputBuffer[INPUT_POSITION_TYPE_ID + 1])
       IN  stack' = SetTop(t, [f EXCEPT
                 !.i = IF to = "knobs" THEN INPUT_KNOB_STATE_OFFSET ELSE d.keyStateOffset,
                 !.pc = to])
    /\ UNCHANGED <<cfgVars, imageVars, inputVars, brightness, preSleepBrightness, asleep,
                   fadeDuration, featureReport, ioErrors, ret, call, prevCall>>

\* The button loop up to and including its next send on kch, or to its end.
MultiButtons(t) ==
    /\ At(t, "readKeysForMultipleInputTypes", "buttons")
    /\ LET f == Top(t)
           changed == ButtonsChanged(f.inputBuffer, keyState, d.keyStateOffset, f.i)
       IN  IF changed = {}
           THEN /\ stack' = Goto(t, "read")
                /\ UNCHANGED <<keyState, emitted>>
           ELSE LET g == SetMin(changed)
                    keyIndex == Uint8(g - d.keyStateOffset)
                IN  /\ keyState' = [keyState EXCEPT ![keyIndex + 1] = f.inputBuffer[g + 1]]
                    /\ emitted' = Append(emitted,
                                         Key(keyIndex, f.inputBuffer[g + 1] = 1, TRUE))
                    /\ stack' = SetTop(t, [f EXCEPT !.i = g + 1])
    /\ UNCHANGED <<cfgVars, imageVars, kchClosed, brightness, preSleepBrightness, asleep,
                   fadeDuration, idleTime, sleepMutex, featureReport, ioErrors,
                   ret, call, prevCall>>

\* A parser that numbers the knob presses from 0, without the buttons before them.
KnobPressIndexNoButtons(i) == Uint8(i - INPUT_KNOB_STATE_OFFSET)

\* keyIndex of the press of the knob at Go index i.
KnobPressIndex(i) == Uint8(i - INPUT_KNOB_STATE_OFFSET + d.Columns * d.Rows)

\* A parser that numbers the left turns from the first knob press on, one low.
KnobDialIndexOneLow(i, keyValue) ==
    IF keyValue - 128 > 0
    THEN Uint8(i - INPUT_KNOB_STATE_OFFSET + d.Columns * d.Rows + d.Knobs - 1)
    ELSE Uint8(i - INPUT_KNOB_STATE_OFFSET + d.Columns * d.Rows + 2 * d.Knobs)

\* keyIndex of a dial event: int(keyValue)-128 > 0 is left, otherwise right.
KnobDialIndex(i, keyValue) ==
    IF keyValue - 128 > 0
    THEN Uint8(i - INPUT_KNOB_STATE_OFFSET + d.Columns * d.Rows + d.Knobs)
    ELSE Uint8(i - INPUT_KNOB_STATE_OFFSET + d.Columns * d.Rows + 2 * d.Knobs)

\* Does the iteration of the knob loop at Go index i send on kch?
KnobSends(inputBuffer, state, i) ==
    LET knobUsage == inputBuffer[INPUT_POSITION_KNOB_USAGE_ID + 1]
        keyValue == inputBuffer[i + 1]
    IN  \/ knobUsage = INPUT_KNOB_USAGE_PRESS /\ keyValue # state[KnobPressIndex(i) + 1]
        \/ knobUsage = INPUT_KNOB_USAGE_DIAL /\ keyValue > 0

\* The knob loop up to and including its next send on kch, or to its end.
MultiKnobs(t) ==
    /\ At(t, "readKeysForMultipleInputTypes", "knobs")
    /\ LET f == Top(t)
           sends == { g \in f.i..(INPUT_KNOB_STATE_OFFSET + d.Knobs - 1) :
                         KnobSends(f.inputBuffer, keyState, g) }
       IN  IF sends = {}
           THEN /\ stack' = Goto(t, "read")
                /\ UNCHANGED <<keyState, emitted>>
           ELSE LET g == SetMin(sends)
                    keyValue == f.inputBuffer[g + 1]
                IN  /\ IF f.inputBuffer[INPUT_POSITION_KNOB_USAGE_ID + 1] = INPUT_KNOB_USAGE_PRESS
                       THEN /\ keyState' = [keyState EXCEPT ![KnobPressIndex(g) + 1] = keyValue]
                            /\ emitted' = Append(emitted,
                                                 Key(KnobPressIndex(g), keyValue = 1, TRUE))
                       ELSE /\ emitted' = Append(emitted,
                                                 Key(KnobDialIndex(g, keyValue), TRUE, FALSE))
                            /\ UNCHANGED keyState
                    /\ stack' = SetTop(t, [f EXCEPT !.i = g + 1])
    /\ UNCHANGED <<cfgVars, imageVars, kchClosed, brightness, preSleepBrightness, asleep,
                   fadeDuration, idleTime, sleepMutex, featureReport, ioErrors,
                   ret, call, prevCall>>

\* uint8(f) of a whole, non-negative float64 f.  Go leaves the result to the
\* implementation when f does not fit the type: the builds either keep the low
\* byte of the integer or stop at the largest uint8.
FloatToUint8(f) ==
    IF f < 256 THEN {f} ELSE {f % 256, 255}

\* A parser that takes a swipe whose x grows for right-to-left.
SwipeIndexMirrored(startSegment, stopSegment) ==
    LET base == d.Columns * d.Rows + 3 * d.Knobs
    IN  IF startSegment > stopSegment
        THEN Uint8(base + 2 * d.ScreenSegments)
        ELSE IF startSegment < stopSegment
        THEN Uint8(base + 2 * d.ScreenSegments + 1)
        ELSE -1

\* keyIndex of a swipe, -1 where the code continues without a send.
SwipeIndex(startSegment, stopSegment) ==
    LET base == d.Columns * d.Rows + 3 * d.Knobs
    IN  IF startSegment < stopSegment
        THEN Uint8(base + 2 * d.ScreenSegments)
        ELSE IF startSegment > stopSegment
        THEN Uint8(base + 2 * d.ScreenSegments + 1)
        ELSE -1

\* keyIndex of a touch report, -1 where the code continues without a send,
\* given the results of the three conversions to uint8.
\* (keyIndex is declared zero and stays zero under an unknown usage.)
TouchIndex(inputBuffer, segment, startSegment, stopSegment) ==
    LET touchUsage == inputBuffer[INPUT_POSITION_TOUCH_USAGE_ID + 1]
        base == d.Columns * d.Rows + 3 * d.Knobs
    IN  CASE touchUsage = INPUT_TOUCH_USAGE_SHORT -> Uint8(base + segment)
          [] touchUsage = INPUT_TOUCH_USAGE_LONG ->
                Uint8(base + d.ScreenSegments + segment)
          [] touchUsage = INPUT_TOUCH_USAGE_SWIPE -> SwipeIndex(startSegment, stopSegment)
          [] OTHER -> 0

MultiTouch(t) ==
    /\ At(t, "readKeysForMultipleInputTypes", "touch")
    /\ LET inputBuffer == Top(t).inputBuffer
           x == LittleEndianUint16(inputBuffer, INPUT_POSITION_TOUCH_X_ID)
           x2 == LittleEndianUint16(inputBuffer, INPUT_POSITION_TOUCH_X2_ID)
       IN  \E segment \in FloatToUint8(x \div ScreenSegmentWidth),
              startSegment \in FloatToUint8(x \div 40),
              stopSegment \in FloatToUint8(x2 \div 40) :
             LET keyIndex == TouchIndex(inputBuffer, segment, startSegment, stopSegment)
             IN  emitted' = IF keyIndex = -1
                            THEN emitted
                            ELSE Append(emitted, Key(keyIndex, TRUE, FALSE))
    /\ stack' = Goto(t, "read")
    /\ UNCHANGED <<cfgVars, imageVars, keyState, kchClosed, brightness, preSleepBrightness,
                   asleep, fadeDuration, idleTime, sleepMutex, featureReport,
                   ioErrors, ret, call, prevCall>>

MultiStep(t) ==
    \/ MultiRead(t)
    \/ MultiAsleep(t)
    \/ MultiWoken(t)
    \/ MultiLock(t)
    \/ MultiActive(t)
    \/ MultiButtons(t)
    \/ MultiKnobs(t)
    \/ MultiTouch(t)

\* d.readKeys(d), as Devices() set it
ReadKeysFrame ==
    IF d.readKeys = "readKeysForMultipleInputTypes" THEN MultiFrame ELSE ButtonsFrame

----------------------------------------------------------------------------
(* The goroutine SetSleepTimeout(t) starts, t in whole seconds.            *)

\* done: the ctx of the goroutine has been cancelled (d.sleepCancel was called).
\* held: d.sleepCancel is the cancel function of this goroutine's ctx.
WatcherFrame(t) ==
    [fn |-> "watcher", pc |-> "select", since |-> 0, timeout |-> t, done |-> FALSE,
     held |-> TRUE]

\* A second passes without a report or a Wake().
Tick ==
    /\ idleTime < MaxIdle
    /\ idleTime' = idleTime + 1
    /\ UNCHANGED <<cfgVars, imageVars, inputVars, brightness, preSleepBrightness, asleep,
                   fadeDuration, sleepMutex, featureReport, ioErrors, stack, ret,
                   call, prevCall>>

\* case <-time.After(time.Second):
WatcherTimer(t) ==
    /\ At(t, "watcher", "select")
    /\ stack' = Goto(t, "rlock")
    /\ UNCHANGED <<cfgVars, imageVars, inputVars, brightness, preSleepBrightness, asleep,
                   fadeDuration, idleTime, sleepMutex, featureReport, ioErrors,
                   ret, call, prevCall>>

\* d.sleepMutex.RLock()
WatcherRLock(t) ==
    /\ At(t, "watcher", "rlock")
    /\ sleepMutex.w = "none"
    /\ sleepMutex' = [sleepMutex EXCEPT !.r = @ \cup {t}]
    /\ stack' = Goto(t, "since")
    /\ UNCHANGED <<cfgVars, imageVars, inputVars, brightness, preSleepBrightness, asleep,
                   fadeDuration, idleTime, featureReport, ioErrors, ret, call,
                   prevCall>>

\* since := time.Since(d.lastActionTime); d.sleepMutex.RUnlock()
WatcherSince(t) ==
    /\ At(t, "watcher", "since")
    /\ sleepMutex' = [sleepMutex EXCEPT !.r = @ \ {t}]
    /\ stack' = SetTop(t, [Top(t) EXCEPT !.since = idleTime, !.pc = "check"])
    /\ UNCHANGED <<cfgVars, imageVars, inputVars, brightness, preSleepBrightness, asleep,
                   fadeDuration, idleTime, featureReport, ioErrors, ret, call,
                   prevCall>>

\* A watcher that waits until the idle time has passed the timeout.
WatcherCheckStrict(t) ==
    /\ At(t, "watcher", "check")
    /\ stack' = IF ~asleep /\ Top(t).since > Top(t).timeout
                THEN Invoke(t, "slept", SleepFrame)
                ELSE Goto(t, "select")
    /\ UNCHANGED <<cfgVars, imageVars, inputVars, brightness, preSleepBrightness, asleep,
                   fadeDuration, idleTime, sleepMutex, featureReport, ioErrors,
                   ret, call, prevCall>>

\* A watcher that puts the device to sleep whether or not it is asleep already.
WatcherCheckIdleOnly(t) ==
    /\ At(t, "watcher", "check")
    /\ stack' = IF Top(t).since >= Top(t).timeout
                THEN Invoke(t, "slept", SleepFrame)
                ELSE Goto(t, "select")
    /\ UNCHANGED <<cfgVars, imageVars, inputVars, brightness, preSleepBrightness, asleep,
                   fadeDuration, idleTime, sleepMutex, featureReport, ioErrors,
                   ret, call, prevCall>>

\* if !d.asleep && since >= t { _ = d.Sleep() }
WatcherCheck(t) ==
    /\ At(t, "watcher", "check")
    /\ stack' = IF ~asleep /\ Top(t).since >= Top(t).timeout
                THEN Invoke(t, "slept", SleepFrame)
                ELSE Goto(t, "select")
    /\ UNCHANGED <<cfgVars, imageVars, inputVars, brightness, preSleepBrightness, asleep,
                   fadeDuration, idleTime, sleepMutex, featureReport, ioErrors,
                   ret, call, prevCall>>

\* _ = d.Sleep() has returned
WatcherSlept(t) ==
    /\ At(t, "watcher", "slept")
    /\ stack' = Goto(t, "select")
    /\ ret' = [ret EXCEPT ![t] = "nil"]
    /\ UNCHANGED <<cfgVars, imageVars, inputVars, brightness, preSleepBrightness, asleep,
                   fadeDuration, idleTime, sleepMutex, featureReport, ioErrors,
                   call, prevCall>>

\* A goroutine that takes the cancellation for a tick of the timer.
WatcherDoneIgnored(t) ==
    /\ At(t, "watcher", "select")
    /\ Top(t).done
    /\ stack' = Goto(t, "rlock")
    /\ UNCHANGED <<cfgVars, imageVars, inputVars, brightness, preSleepBrightness, asleep,
                   fadeDuration, idleTime, sleepMutex, featureReport, ioErrors,
                   ret, call, prevCall>>

\* case <-ctx.Done(): return
WatcherDone(t) ==
    /\ At(t, "watcher", "select")
    /\ Top(t).done
    /\ stack' = Pop(t)
    /\ UNCHANGED <<cfgVars, imageVars, inputVars, brightness, preSleepBrightness, asleep,
                   fadeDuration, idleTime, sleepMutex, featureReport, ioErrors,
                   ret, call, prevCall>>

WatcherStep(t) ==
    \/ WatcherTimer(t)
    \/ WatcherRLock(t)
    \/ WatcherSince(t)
    \/ WatcherCheck(t)
    \/ WatcherSlept(t)

----------------------------------------------------------------------------
(* SetSleepTimeout, cancelSleepTimer and Close.                            *)

\* The goroutines SetSleepTimeout has started and that have not returned: at
\* most two at a time.
Watchers == {"watcher", "watcher2"}

\* The goroutine of a watcher is running.
Running(w) == stack[w] # <<>>

\* d.sleepCancel is the cancel function of the ctx of goroutine w.
SleepCancelIs(w) == Running(w) /\ stack[w][1].held

\* d.sleepCancel != nil
SleepCancelSet == \E w \in Watchers : SleepCancelIs(w)

\* cancelSleepTimer: if d.sleepCancel != nil { d.sleepCancel(); d.sleepCancel = nil }
cancelSleepTimer ==
    [w \in DOMAIN stack |->
        IF w \in Watchers /\ SleepCancelIs(w)
        THEN [stack[w] EXCEPT ![1].done = TRUE, ![1].held = FALSE]
        ELSE stack[w]]

\* The goroutine a `go func()` starts runs in the first slot that is free.
FreeWatcher == IF Running("watcher") THEN "watcher2" ELSE "watcher"

\* ctx, d.sleepCancel = context.WithCancel(...); go func() {...}() on the
\* goroutines s: d.sleepCancel is the new cancel function and no other.
StartWatcher(s, t) ==
    [w \in DOMAIN s |->
        IF w = FreeWatcher THEN <<WatcherFrame(t)>>
        ELSE IF w \in Watchers /\ s[w] # <<>> THEN [s[w] EXCEPT ![1].held = FALSE]
        ELSE s[w]]

\* A SetSleepTimeout that starts the new watcher without cancelling the one
\* before.
SetSleepTimeoutNoCancel(t) ==
    /\ CallerIdle
    /\ t > 0 => \E w \in Watchers : ~Running(w)
    /\ stack' = IF t = 0 THEN cancelSleepTimer ELSE StartWatcher(stack, t)
    /\ UNCHANGED <<cfgVars, imageVars, inputVars, brightness, preSleepBrightness, asleep,
                   fadeDuration, idleTime, sleepMutex, featureReport, ioErrors,
                   ret, call, prevCall>>

\* SetSleepTimeout(t), t in whole seconds: d.cancelSleepTimer(); if t == 0
\* { return }; then the new ctx and the goroutine (while a goroutine slot is
\* free).
SetSleepTimeout(t) ==
    /\ CallerIdle
    /\ t > 0 => \E w \in Watchers : ~Running(w)
    /\ stack' = IF t = 0 THEN cancelSleepTimer ELSE StartWatcher(cancelSleepTimer, t)
    /\ UNCHANGED <<cfgVars, imageVars, inputVars, brightness, preSleepBrightness, asleep,
                   fadeDuration, idleTime, sleepMutex, featureReport, ioErrors,
                   ret, call, prevCall>>

CloseFrame == [fn |-> "Close", pc |-> "cancel"]

\* d.cancelSleepTimer()
CloseCancel(t) ==
    /\ At(t, "Close", "cancel")
    /\ stack' = [cancelSleepTimer EXCEPT ![t] = [@ EXCEPT ![Len(@)].pc = "close"]]
    /\ UNCHANGED <<cfgVars, imageVars, inputVars, brightness, preSleepBrightness, asleep,
                   fadeDuration, idleTime, sleepMutex, featureReport, ioErrors,
                   ret, call, prevCall>>

\* return d.device.Close()
CloseDevice(t) ==
    /\ At(t, "Close", "close")
    /\ closed' = TRUE
    /\ Return(t, "nil")
    /\ UNCHANGED <<model, history, faults, traffic, imageVars, inputVars, brightness,
                   preSleepBrightness, asleep, fadeDuration, idleTime, sleepMutex,
                   featureReport, ioErrors, prevCall>>

CloseStep(t) ==
    \/ CloseCancel(t)
    \/ CloseDevice(t)

CallClose == Begin("Close", 0, CloseFrame)

----------------------------------------------------------------------------
(* imageData: the pager over the bytes of an encoded image.                *)

imageData(image, pageSize) == [image |-> image, pageSize |-> pageSize]

\* imageData.Length
Length(dd) == Len(dd.image)

\* A page count that adds a page when the pages divide the image evenly too.
PageCountAndOne(dd) == Len(dd.image) \div dd.pageSize + 1

\* imageData.PageCount
PageCount(dd) ==
    LET count == Len(dd.image) \div dd.pageSize
    IN  IF Len(dd.image) % dd.pageSize # 0 THEN count + 1 ELSE count

\* PageCount divides by d.pageSize: with a page size of zero the division
\* panics (runtime error: integer divide by zero).
PageCountPanics(dd) == dd.pageSize = 0

\* Page calls PageCount unless the offset is at or past the end of the image.
PagePanics(dd, pageIndex) ==
    /\ pageIndex * dd.pageSize < Len(dd.image)
    /\ PageCountPanics(dd)

\* imageData.pageLength
pageLength(dd, pageIndex) ==
    LET remaining == Len(dd.image) - (pageIndex * dd.pageSize)
    IN  IF remaining > dd.pageSize THEN dd.pageSize
        ELSE IF remaining > 0 THEN remaining
        ELSE 0

\* A pager whose payloads all start at the first byte of the image.
PageFromStart(dd, pageIndex) ==
    LET offset == pageIndex * dd.pageSize
    IN  IF offset >= Len(dd.image)
        THEN [payload |-> <<>>, last |-> TRUE]
        ELSE LET l == pageLength(dd, pageIndex)
                 length == IF offset + l > Len(dd.image)
                           THEN Len(dd.image) - offset
                           ELSE l
             IN  [payload |-> SubSeq(dd.image, 1, length),
                  last |-> pageIndex = PageCount(dd) - 1]

\* imageData.Page: the payload d.image[offset : offset+length] and the last-page
\* indication.
Page(dd, pageIndex) ==
    LET offset == pageIndex * dd.pageSize
    IN  IF offset >= Len(dd.image)
        THEN [payload |-> <<>>, last |-> TRUE]
        ELSE LET l == pageLength(dd, pageIndex)
                 length == IF offset + l > Len(dd.image)
                           THEN Len(dd.image) - offset
                           ELSE l
             IN  [payload |-> SubSeq(dd.image, offset + 1, offset + length),
                  last |-> pageIndex = PageCount(dd) - 1]

----------------------------------------------------------------------------
(* The page headers.                                                       *)

\* byte(v) of a non-negative int
Byte(v) == v % 256

\* var lastPageByte byte; if lastPage { lastPageByte = 1 }
LastPageByte(lastPage) == IF lastPage THEN 1 ELSE 0

rev1ImagePageHeader(pageIndex, keyIndex, payloadLength, lastPage) ==
    <<2, 1, Byte(pageIndex + 1), 0, LastPageByte(lastPage), Uint8(keyIndex + 1),
      0, 0, 0, 0, 0, 0, 0, 0, 0, 0>>

\* A Mini header that numbers its pages from 1, as the Rev1 header does.
miniImagePageHeaderFromOne(pageIndex, keyIndex, payloadLength, lastPage) ==
    rev1ImagePageHeader(pageIndex, keyIndex, payloadLength, lastPage)

miniImagePageHeader(pageIndex, keyIndex, payloadLength, lastPage) ==
    <<2, 1, Byte(pageIndex), 0, LastPageByte(lastPage), Uint8(keyIndex + 1),
      0, 0, 0, 0, 0, 0, 0, 0, 0, 0>>

rev2ImagePageHeader(pageIndex, keyIndex, payloadLength, lastPage) ==
    <<2, 7, keyIndex, LastPageByte(lastPage),
      Byte(payloadLength), Byte(payloadLength \div 256),
      Byte(pageIndex), Byte(pageIndex \div 256)>>

touchScreenImagePageHeader(page, x, y, width, height, payloadLength, lastPage) ==
    <<2, 12,
      Byte(x), Byte(x \div 256),
      Byte(y), Byte(y \div 256),
      Byte(width), Byte(width \div 256),
      Byte(height), Byte(height \div 256),
      LastPageByte(lastPage),
      Byte(page), Byte(page \div 256),
      Byte(payloadLength), Byte(payloadLength \div 256),
      0>>

\* d.imagePageHeader(pageIndex, keyIndex, payloadLength, lastPage)
imagePageHeader(pageIndex, keyIndex, payloadLength, lastPage) ==
    CASE d.imagePageHeader = "rev1ImagePageHeader" ->
           rev1ImagePageHeader(pageIndex, keyIndex, payloadLength, lastPage)
      [] d.imagePageHeader = "miniImagePageHeader" ->
           miniImagePageHeader(pageIndex, keyIndex, payloadLength, lastPage)
      [] d.imagePageHeader = "rev2ImagePageHeader" ->
           rev2ImagePageHeader(pageIndex, keyIndex, payloadLength, lastPage)

\* The key, the page index and the last-page flag a device of this model reads
\* in the header of a key image page, and the segment, the page index and the
\* flag it reads in that of a touch screen page.
KeyFrameKey(data) ==
    IF d.imagePageHeader = "rev2ImagePageHeader" THEN data[3] ELSE data[6] - 1

KeyFramePage(data) ==
    CASE d.imagePageHeader = "rev1ImagePageHeader" -> data[3] - 1
      [] d.imagePageHeader = "miniImagePageHeader" -> data[3]
      [] d.imagePageHeader = "rev2ImagePageHeader" -> data[7] + 256 * data[8]

KeyFrameLast(data) ==
    IF d.imagePageHeader = "rev2ImagePageHeader" THEN data[4] = 1 ELSE data[5] = 1

\* The segment whose left edge is the x of the header.
TouchFrameSegment(data) == (data[3] + 256 * data[4]) \div (data[7] + 256 * data[8])

TouchFramePage(data) == data[12] + 256 * data[13]

TouchFrameLast(data) == data[11] = 1

----------------------------------------------------------------------------
(* Images and their encodings.  An image is known by its bounds, by the    *)
(* one shade all its pixels have (every flip maps such an image to         *)
(* itself), and by the length of the JPEG stream image/jpeg makes of it.   *)

Image(dx, dy, shade, jpeg) == [dx |-> dx, dy |-> dy, jpeg |-> jpeg, shade |-> shade]

\* The BMP file header and bitmap info header toBMP writes.
BMPHeader ==
    <<66, 77, 246, 60, 0, 0, 0, 0,
      0, 0, 54, 0, 0, 0, 40, 0,
      0, 0, 72, 0, 0, 0, 72, 0,
      0, 0, 1, 0, 24, 0, 0, 0,
      0, 0, 192, 60, 0, 0, 196, 14,
      0, 0, 196, 14, 0, 0, 0, 0,
      0, 0, 0, 0, 0, 0>>

\* toBMP: the header, then B, G, R of every pixel.
toBMP(img) ==
    [i \in 1..(Len(BMPHeader) + img.dx * img.dy * 3) |->
        IF i <= Len(BMPHeader) THEN BMPHeader[i] ELSE img.shade]

\* toJPEG: the stream of jpeg.Encode at quality 100, which starts with the
\* marker ff d8 and ends with ff d9; the bytes between are not modelled (they
\* stand as 1..253, none of them zero).
toJPEG(img) ==
    [i \in 1..img.jpeg |->
        IF i = 1 \/ i = img.jpeg - 1 THEN 255
        ELSE IF i = 2 THEN 216
        ELSE IF i = img.jpeg THEN 217
        ELSE 1 + (i % 253)]

\* transformImage: device.flipImage, then device.toImageFormat
transformImage(img) ==
    IF d.toImageFormat = "toBMP" THEN toBMP(img) ELSE toJPEG(img)

\* copy(dst[at:], src)
CopyAt(dst, at, src) ==
    [i \in 1..Len(dst) |->
        IF at < i /\ i <= at + Len(src) THEN src[i - at] ELSE dst[i]]

----------------------------------------------------------------------------
(* SetImage.                                                               *)

SetImageFrame(index, img) ==
    [fn |-> "SetImage", pc |-> "check", index |-> index, img |-> img,
     imageData |-> imageData(<<>>, 0), data |-> <<>>, page |-> 0, lastPage |-> FALSE]

\* A check of the height alone.
SetImageDimensionsDy(img) == img.dy = d.Pixels

\* img.Bounds().Dy() == int(d.Pixels) && img.Bounds().Dx() == int(d.Pixels)
SetImageDimensions(img) == img.dy = d.Pixels /\ img.dx = d.Pixels

\* The length of the encoded image is noted for the caller's upload.
Uploading(t, image) ==
    IF t = "caller" /\ Len(stack[t]) = 1
    THEN [frames EXCEPT !.bytes = Len(image)]
    ELSE frames

\* An output report handed to the transport is noted for the caller's upload.
Uploaded(t, key, page, last, length, ok) ==
    IF t = "caller"
    THEN [frames EXCEPT !.writes = Append(@, [key |-> key, page |-> page,
                                               last |-> last, length |-> length,
                                               ok |-> ok])]
    ELSE frames

\* The dimension check; transformImage; imageData{...}; data := make([]byte, d.imagePageSize)
SetImageCheck(t) ==
    /\ At(t, "SetImage", "check")
    /\ IF ~SetImageDimensions(Top(t).img)
       THEN /\ Return(t, "err")
            /\ UNCHANGED frames
       ELSE LET imageBytes == transformImage(Top(t).img)
            IN  /\ stack' = SetTop(t, [Top(t) EXCEPT
                        !.imageData = imageData(imageBytes,
                                                d.imagePageSize - d.imagePageHeaderSize),
                        !.data = Zeros(d.imagePageSize),
                        !.pc = "loop"])
                /\ frames' = Uploading(t, imageBytes)
                /\ UNCHANGED <<ret, call>>
    /\ UNCHANGED <<cfgVars, inputVars, written, brightness, preSleepBrightness,
                   asleep, fadeDuration, idleTime, sleepMutex, featureReport,
                   ioErrors, prevCall>>

\* A loop that goes on to the next page whatever device.Write returned.
SetImagePageUnchecked(t) ==
    /\ At(t, "SetImage", "loop")
    /\ ~Top(t).lastPage
    /\ LET f == Top(t)
           pg == Page(f.imageData, f.page)
           header == imagePageHeader(f.page, translateKeyIndex(f.index),
                                     Len(pg.payload), pg.last)
           data == CopyAt(CopyAt(f.data, 0, header), Len(header), pg.payload)
       IN  \E ok \in IoOutcomes :
             /\ ioErrors' = IoCount(ok)
             /\ written' = IF ok THEN data ELSE written
             /\ frames' = Uploaded(t, KeyFrameKey(data), KeyFramePage(data),
                                   KeyFrameLast(data),
                                   Len(pg.payload), ok)
             /\ stack' = SetTop(t, [f EXCEPT !.data = data,
                                             !.lastPage = pg.last,
                                             !.page = f.page + 1])
             /\ UNCHANGED <<ret, call>>
    /\ UNCHANGED <<cfgVars, inputVars, brightness, preSleepBrightness, asleep,
                   fadeDuration, idleTime, sleepMutex, featureReport, prevCall>>

\* A SetImage that writes its index into the header as it was passed.
SetImagePageRawIndex(t) ==
    /\ At(t, "SetImage", "loop")
    /\ ~Top(t).lastPage
    /\ LET f == Top(t)
           pg == Page(f.imageData, f.page)
           header == imagePageHeader(f.page, f.index, Len(pg.payload), pg.last)
           data == CopyAt(CopyAt(f.data, 0, header), Len(header), pg.payload)
       IN  \E ok \in IoOutcomes :
             /\ ioErrors' = IoCount(ok)
             /\ written' = IF ok THEN data ELSE written
             /\ frames' = Uploaded(t, KeyFrameKey(data), KeyFramePage(data),
                                   KeyFrameLast(data),
                                   Len(pg.payload), ok)
             /\ IF ok
                THEN /\ stack' = SetTop(t, [f EXCEPT !.data = data,
                                                     !.page = f.page + 1,
                                                     !.lastPage = pg.last])
                     /\ UNCHANGED <<ret, call>>
                ELSE Return(t, "err")
    /\ UNCHANGED <<cfgVars, inputVars, brightness, preSleepBrightness,
                   asleep, fadeDuration, idleTime, sleepMutex, featureReport,
                   prevCall>>

\* One pass of the loop: Page, the header, the two copies, device.Write, page++.
SetImagePage(t) ==
    /\ At(t, "SetImage", "loop")
    /\ ~Top(t).lastPage
    /\ LET f == Top(t)
           pg == Page(f.imageData, f.page)
           header == imagePageHeader(f.page, translateKeyIndex(f.index),
                                     Len(pg.payload), pg.last)
           data == CopyAt(CopyAt(f.data, 0, header), Len(header), pg.payload)
       IN  \E ok \in IoOutcomes :
             /\ ioErrors' = IoCount(ok)
             /\ written' = IF ok THEN data ELSE written
             /\ frames' = Uploaded(t, KeyFrameKey(data), KeyFramePage(data),
                                   KeyFrameLast(data),
                                   Len(pg.payload), ok)
             /\ IF ok
                THEN /\ stack' = SetTop(t, [f EXCEPT !.data = data,
                                                     !.lastPage = pg.last,
                                                     !.page = f.page + 1])
                     /\ UNCHANGED <<ret, call>>
                ELSE Return(t, "err")
    /\ UNCHANGED <<cfgVars, inputVars, brightness, preSleepBrightness, asleep,
                   fadeDuration, idleTime, sleepMutex, featureReport, prevCall>>

\* lastPage is set: return nil
SetImageReturn(t) ==
    /\ At(t, "SetImage", "loop")
    /\ Top(t).lastPage
    /\ Return(t, "nil")
    /\ UNCHANGED <<cfgVars, inputVars, imageVars, brightness, preSleepBrightness,
                   asleep, fadeDuration, idleTime, sleepMutex, featureReport,
                   ioErrors, prevCall>>

----------------------------------------------------------------------------
(* SetTouchScreenImage.                                                    *)

\* ScreenSegmentHeight
ScreenSegmentHeight == IF d.ScreenSegments = 0 THEN 0 ELSE d.ScreenHeight

SetTouchScreenImageFrame(segmentIndex, img) ==
    [fn |-> "SetTouchScreenImage", pc |-> "start", segmentIndex |-> segmentIndex,
     img |-> img, imageData |-> imageData(<<>>, 0), x |-> 0, y |-> 0,
     data |-> <<>>, page |-> 0, lastPage |-> FALSE]

\* segmentWidth; transformImage; imageData{...}; x, y; data := make([]byte, screenPageSize)
SetTouchScreenImageStart(t) ==
    /\ At(t, "SetTouchScreenImage", "start")
    /\ LET imageBytes == transformImage(Top(t).img)
       IN  /\ stack' = SetTop(t, [Top(t) EXCEPT
                   !.imageData = imageData(imageBytes,
                                           d.screenPageSize - d.screenPageHeaderSize),
                   !.x = Top(t).segmentIndex * ScreenSegmentWidth,
                   !.y = 0,
                   !.data = Zeros(d.screenPageSize),
                   !.pc = "loop"])
           /\ frames' = Uploading(t, imageBytes)
    /\ UNCHANGED <<cfgVars, inputVars, written, brightness, preSleepBrightness,
                   asleep, fadeDuration, idleTime, sleepMutex, featureReport,
                   ioErrors, ret, call, prevCall>>

\* One pass of the loop: Page, the header, the two copies, device.Write, page++.
SetTouchScreenImagePage(t) ==
    /\ At(t, "SetTouchScreenImage", "loop")
    /\ ~Top(t).lastPage
    /\ ~PagePanics(Top(t).imageData, Top(t).page)
    /\ LET f == Top(t)
           pg == Page(f.imageData, f.page)
           header == touchScreenImagePageHeader(f.page, f.x, f.y, ScreenSegmentWidth,
                                                ScreenSegmentHeight, Len(pg.payload),
                                                pg.last)
           data == CopyAt(CopyAt(f.data, 0, header), Len(header), pg.payload)
       IN  \E ok \in IoOutcomes :
             /\ ioErrors' = IoCount(ok)
             /\ written' = IF ok THEN data ELSE written
             /\ frames' = Uploaded(t, TouchFrameSegment(data), TouchFramePage(data),
                                   TouchFrameLast(data),
                                   Len(pg.payload), ok)
             /\ IF ok
                THEN /\ stack' = SetTop(t, [f EXCEPT !.data = data,
                                                     !.lastPage = pg.last,
                                                     !.page = f.page + 1])
                     /\ UNCHANGED <<ret, call>>
                ELSE Return(t, "err")
    /\ UNCHANGED <<cfgVars, inputVars, brightness, preSleepBrightness, asleep,
                   fadeDuration, idleTime, sleepMutex, featureReport, prevCall>>

\* payload, lastPage = imageData.Page(page) panics: the call does not return
\* an error value, its goroutine unwinds, and nothing was handed to the
\* transport in this pass.
SetTouchScreenImagePanic(t) ==
    /\ At(t, "SetTouchScreenImage", "loop")
    /\ ~Top(t).lastPage
    /\ PagePanics(Top(t).imageData, Top(t).page)
    /\ Return(t, "panic")
    /\ UNCHANGED <<cfgVars, inputVars, imageVars, brightness, preSleepBrightness,
                   asleep, fadeDuration, idleTime, sleepMutex, featureReport,
                   ioErrors, prevCall>>

SetTouchScreenImageReturn(t) ==
    /\ At(t, "SetTouchScreenImage", "loop")
    /\ Top(t).lastPage
    /\ Return(t, "nil")
    /\ UNCHANGED <<cfgVars, inputVars, imageVars, brightness, preSleepBrightness,
                   asleep, fadeDuration, idleTime, sleepMutex, featureReport,
                   ioErrors, prevCall>>

ImageStep(t) ==
    \/ SetImageCheck(t)
    \/ SetImagePage(t)
    \/ SetImageReturn(t)
    \/ SetTouchScreenImageStart(t)
    \/ SetTouchScreenImagePage(t)
    \/ SetTouchScreenImageReturn(t)

CallSetImage(index, img) ==
    Begin("SetImage", [img |-> img, index |-> index], SetImageFrame(index, img))

\* The caller answers the press of a key by setting the image of the key the
\* event names: the worker has handled a report that shows the button at raw
\* position r down, and the event of the press is e.  The position is kept
\* with the call.
EchoSetImage(img) ==
    /\ stack["worker"] # <<>>
    /\ Top("worker").pc = "read"
    /\ \E j \in 1..Len(emitted), r \in 0..(d.Columns * d.Rows - 1) :
         /\ emitted[j].Pressed
         /\ keyState[r + 1] = 1
         /\ Begin("SetImage", [img |-> img, index |-> emitted[j].Index, pos |-> r],
                  SetImageFrame(emitted[j].Index, img))

CallSetTouchScreenImage(segmentIndex, img) ==
    Begin("SetTouchScreenImage", [img |-> img, index |-> segmentIndex],
          SetTouchScreenImageFrame(segmentIndex, img))

----------------------------------------------------------------------------
(* Clear.                                                                  *)

\* img: Pixels x Pixels, every pixel opaque black; jpeg is the length of the
\* JPEG stream the encoder makes of it.
ClearImage(jpeg) == Image(d.Pixels, d.Pixels, 0, jpeg)

ClearFrame(jpeg) == [fn |-> "Clear", pc |-> "loop", i |-> 0, img |-> ClearImage(jpeg)]

\* for i := uint8(0); i <= d.Columns*d.Rows; ... { err := d.SetImage(i, img)
ClearLoop(t) ==
    /\ At(t, "Clear", "loop")
    /\ IF Top(t).i <= Uint8(d.Columns * d.Rows)
       THEN /\ stack' = Invoke(t, "set", SetImageFrame(Top(t).i, Top(t).img))
            /\ UNCHANGED <<ret, call>>
       ELSE Return(t, "nil")
    /\ UNCHANGED <<cfgVars, inputVars, imageVars, brightness, preSleepBrightness,
                   asleep, fadeDuration, idleTime, sleepMutex, featureReport,
                   ioErrors, prevCall>>

\* if err != nil { fmt.Println(err); return err }; i++
ClearSet(t) ==
    /\ At(t, "Clear", "set")
    /\ IF ret[t] = "err"
       THEN Return(t, "err")
       ELSE /\ stack' = SetTop(t, [Top(t) EXCEPT !.i = Uint8(@ + 1), !.pc = "loop"])
            /\ UNCHANGED <<ret, call>>
    /\ UNCHANGED <<cfgVars, inputVars, imageVars, brightness, preSleepBrightness,
                   asleep, fadeDuration, idleTime, sleepMutex, featureReport,
                   ioErrors, prevCall>>

ClearStep(t) ==
    \/ ClearLoop(t)
    \/ ClearSet(t)

\* Open(): d.device, err = d.info.Open(); d.lastActionTime = time.Now();
\* d.sleepMutex = &sync.RWMutex{}; return err.  It is called on a device
\* that is closed and has no goroutine left; ok says whether the transport
\* opens.  No other field of the Device is written.
Open(ok) ==
    /\ closed
    /\ \A t \in DOMAIN stack : stack[t] = <<>>
    /\ closed' = ~ok
    /\ idleTime' = 0
    /\ sleepMutex' = [w |-> "none", r |-> {}]
    /\ UNCHANGED <<model, history, faults, traffic, imageVars, inputVars, brightness,
                   preSleepBrightness, asleep, fadeDuration, featureReport, ioErrors,
                   stack, ret, call, prevCall>>

\* ReadKeys(): d.readKeys(d) makes a channel and starts the input worker.
ReadKeys ==
    /\ CallerIdle
    /\ stack["worker"] = <<>>
    /\ stack' = [stack EXCEPT !["worker"] = <<ReadKeysFrame>>]
    /\ kchClosed' = FALSE
    /\ UNCHANGED <<cfgVars, imageVars, keyState, emitted, brightness, preSleepBrightness,
                   asleep, fadeDuration, idleTime, sleepMutex, featureReport, ioErrors,
                   ret, call, prevCall>>

CallClear(jpeg) == Begin("Clear", 0, ClearFrame(jpeg))

----------------------------------------------------------------------------
(* The state after Devices() and Open().                                   *)

Threads == {"caller", "worker"} \cup Watchers

InitDevice ==
    /\ closed = FALSE
    /\ keyState = Zeros(d.Keys)
    /\ kchClosed = FALSE
    /\ emitted = <<>>
    /\ brightness = 0
    /\ preSleepBrightness = 0
    /\ asleep = FALSE
    /\ fadeDuration = 0
    /\ idleTime = 0
    /\ sleepMutex = [w |-> "none", r |-> {}]
    /\ featureReport = <<>>
    /\ written = <<>>
    /\ frames = NoUpload
    /\ ioErrors = 0
    /\ ret = [t \in Threads |-> "nil"]
    /\ call = NoCall
    /\ prevCall = NoCall

\* The brightness byte of the last feature report the transport accepted
\* (-1 before any).
WireBrightness ==
    IF featureReport = <<>> THEN -1
    ELSE featureReport[Len(d.setBrightnessCommand) + 1]

----------------------------------------------------------------------------
(* SpecSeq: one thread calling SetBrightness, Sleep, Wake and              *)
(* SetSleepFadeDuration one after the other, with the call before          *)
(* remembered.                                                             *)

\* One model of each feature-report format.
SeqModels == {"Mini", "XL"}

InitSeq ==
    /\ model \in SeqModels
    /\ faults = MaxIoErrors
    /\ history = "pair"
    /\ traffic = "mixed"
    /\ InitDevice
    /\ stack = [t \in Threads |-> <<>>]

NextSeq ==
    \/ \E p \in Percents : CallSetBrightness(p)
    \/ CallSleep
    \/ CallWake
    \/ \E t \in FadeDurations : SetSleepFadeDuration(t)
    \/ BrightnessStep("caller")

SpecSeq == InitSeq /\ [][NextSeq]_vars

----------------------------------------------------------------------------
(* SpecBright: one thread calling SetBrightness, Fade, Sleep, Wake and     *)
(* SetSleepFadeDuration one after the other.                               *)

\* The start and end values the caller passes to Fade (uint8): up and down,
\* within and above 0..100, across 127, and none.
FadeEnds == {<<0, 100>>, <<100, 0>>, <<130, 200>>, <<200, 130>>, <<0, 200>>,
             <<100, 100>>}

InitBright ==
    /\ model \in SeqModels
    /\ faults = MaxIoErrors
    /\ history = "call"
    /\ traffic = "mixed"
    /\ InitDevice
    /\ stack = [t \in Threads |-> <<>>]

NextBright ==
    \/ \E p \in Percents : CallSetBrightness(p)
    \/ CallSleep
    \/ CallWake
    \/ \E se \in FadeEnds, dur \in FadeDurations : CallFade(se[1], se[2], dur)
    \/ \E t \in FadeDurations : SetSleepFadeDuration(t)
    \/ BrightnessStep("caller")

SpecBright == InitBright /\ [][NextBright]_vars

----------------------------------------------------------------------------
(* SpecFade: one call of Fade(start, end, duration) on an awake device     *)
(* whose transport works, for every start and end in 0..100 and durations  *)
(* of no tick, just below one tick, and whole ticks.  FairFade: the        *)
(* goroutine that calls Fade keeps running.                                *)

FadeLevels == 0..100

FadeSpans == {0, fadeDelay - 1} \cup {k * fadeDelay : k \in 1..(MaxFadeTicks + 1)}

InitFade ==
    /\ model = "Original"
    /\ faults = 0
    /\ history = "off"
    /\ traffic = "mixed"
    /\ InitDevice
    /\ \E s \in FadeLevels, e \in FadeLevels, dur \in FadeSpans :
         stack = [t \in Threads |-> IF t = "caller" THEN <<FadeFrame(s, e, dur)>> ELSE <<>>]

NextFade ==
    \/ FadeStart("caller")
    \/ FadeLoop("caller")
    \/ FadeTick("caller")
    \/ SetBrightnessStore("caller")
    \/ SetBrightnessCheck("caller")
    \/ SetBrightnessSend("caller")

SpecFade == InitFade /\ [][NextFade]_vars

FairFade == SpecFade /\ WF_vars(NextFade)

----------------------------------------------------------------------------
(* SpecFeature: one thread calling FirmwareVersion, Reset, SetBrightness,  *)
(* Sleep, Wake and SetSleepFadeDuration one after the other, on every      *)
(* model.                                                                  *)

\* The percentages the caller passes: none, that of scenario S2, the largest,
\* and one above it.
FeaturePercents == {0, 57, 100, 255}

InitFeature ==
    /\ model \in Models
    /\ faults = MaxIoErrors
    /\ history = "call"
    /\ traffic = "mixed"
    /\ InitDevice
    /\ stack = [t \in Threads |-> <<>>]

NextFeature ==
    \/ CallFirmwareVersion
    \/ CallReset
    \/ \E p \in FeaturePercents : CallSetBrightness(p)
    \/ CallSleep
    \/ CallWake
    \/ \E t \in FadeDurations : SetSleepFadeDuration(t)
    \/ FirmwareVersionGet("caller")
    \/ ResetSend("caller")
    \/ BrightnessStep("caller")

SpecFeature == InitFeature /\ [][NextFeature]_vars

----------------------------------------------------------------------------
(* SpecInput: the input worker ReadKeys() started, reading reports while   *)
(* the caller puts the device to sleep, wakes it and sets its brightness.  *)

\* The models whose worker runs: right-to-left and direct key indices, key
\* state offsets 1 and 4, and the multi-input parser.
InputModels == {"Original", "XL", "Plus"}

InputPercents == {100}

\* The fade duration set before ReadKeys(): two ticks.
InputFadeDuration == 2 * fadeDelay

InitInput ==
    /\ model \in InputModels
    /\ faults = 0
    /\ history = "off"
    /\ traffic = "mixed"
    /\ closed = FALSE
    /\ keyState = Zeros(d.Keys)
    /\ kchClosed = FALSE
    /\ emitted = <<>>
    /\ brightness = 0
    /\ preSleepBrightness = 0
    /\ asleep = FALSE
    /\ fadeDuration = InputFadeDuration
    /\ idleTime = 0
    /\ sleepMutex = [w |-> "none", r |-> {}]
    /\ featureReport = <<>>
    /\ written = <<>>
    /\ frames = NoUpload
    /\ ioErrors = 0
    /\ ret = [t \in Threads |-> "nil"]
    /\ call = NoCall
    /\ prevCall = NoCall
    /\ stack = [t \in Threads |-> IF t = "worker" THEN <<ReadKeysFrame>> ELSE <<>>]

NextInput ==
    \/ \E p \in InputPercents : CallSetBrightness(p)
    \/ CallSleep
    \/ BrightnessStep("caller")
    \/ BrightnessStep("worker")
    \/ ButtonsStep("worker")
    \/ MultiStep("worker")

SpecInput == InitInput /\ [][NextInput]_vars

----------------------------------------------------------------------------
(* SpecInputErr: the input worker reading reports from a transport that    *)
(* may fail, while the caller puts the device to sleep; brightness and     *)
(* fade duration are as Open() leaves them, so that no fade writes.        *)

\* One model of each parser.
InputErrModels == {"Mini", "Plus"}

InitInputErr ==
    /\ model \in InputErrModels
    /\ faults = MaxIoErrors
    /\ history = "off"
    /\ traffic = "mixed"
    /\ InitDevice
    /\ stack = [t \in Threads |-> IF t = "worker" THEN <<ReadKeysFrame>> ELSE <<>>]

\* The steps Sleep and Wake take when the fade has nothing to write.
SleepWakeStep(t) ==
    \/ SetBrightnessStore(t)
    \/ SetBrightnessCheck(t)
    \/ SetBrightnessSend(t)
    \/ FadeStart(t)
    \/ FadeLoop(t)
    \/ SleepLock(t)
    \/ SleepSnapshot(t)
    \/ SleepFaded(t)
    \/ SleepWritten(t)
    \/ WakeLock(t)
    \/ WakeClear(t)
    \/ WakeFaded(t)
    \/ WakeWritten(t)

NextInputErr ==
    \/ CallSleep
    \/ SleepWakeStep("caller")
    \/ SleepWakeStep("worker")
    \/ ButtonsStep("worker")
    \/ MultiStep("worker")

SpecInputErr == InitInputErr /\ [][NextInputErr]_vars

----------------------------------------------------------------------------
(* FairSeq: SpecSeq with the calling thread taking a step whenever it can  *)
(* take one; the transport returns from every write, with or without an    *)
(* error.                                                                  *)

FairSeq ==
    /\ SpecSeq
    /\ WF_vars(BrightnessStep("caller"))

----------------------------------------------------------------------------
(* SpecRace: the caller sets the brightness and wakes the device while the *)
(* goroutine of SetSleepTimeout puts it to sleep; the transport succeeds.  *)

RacePercents == {0, 100}

SleepTimeouts == 1..MaxIdle

InitRace ==
    /\ model \in SeqModels
    /\ faults = 0
    /\ history = "call"
    /\ traffic = "mixed"
    /\ closed = FALSE
    /\ keyState = Zeros(d.Keys)
    /\ kchClosed = FALSE
    /\ emitted = <<>>
    /\ brightness = 0
    /\ preSleepBrightness = 0
    /\ asleep = FALSE
    /\ fadeDuration = InputFadeDuration
    /\ idleTime = 0
    /\ sleepMutex = [w |-> "none", r |-> {}]
    /\ featureReport = <<>>
    /\ written = <<>>
    /\ frames = NoUpload
    /\ ioErrors = 0
    /\ ret = [t \in Threads |-> "nil"]
    /\ call = NoCall
    /\ prevCall = NoCall
    /\ \E timeout \in SleepTimeouts :
         stack = [t \in Threads |->
                    IF t = "watcher" THEN <<WatcherFrame(timeout)>> ELSE <<>>]

NextRace ==
    \/ \E p \in RacePercents : CallSetBrightness(p)
    \/ CallWake
    \/ Tick
    \/ BrightnessStep("caller")
    \/ BrightnessStep("watcher")
    \/ WatcherStep("watcher")

SpecRace == InitRace /\ [][NextRace]_vars

\* FairRace: SpecRace with time passing and with every goroutine that can take
\* a step taking one.
FairRace ==
    /\ SpecRace
    /\ WF_vars(Tick)
    /\ WF_vars(BrightnessStep("caller"))
    /\ WF_vars(BrightnessStep("watcher") \/ WatcherStep("watcher"))

----------------------------------------------------------------------------
(* SpecClose: the input worker and the goroutine of SetSleepTimeout run;   *)
(* the caller starts the watcher, or not, and calls Close().  Brightness   *)
(* and fade duration are as Open() leaves them.  FairClose adds what the   *)
(* scheduler gives: a goroutine that can take a step takes one, and a      *)
(* select that finds ctx.Done() ready again and again takes it.            *)

\* The timeout the caller passes to SetSleepTimeout, in seconds.
CloseTimeouts == {1}

\* The reports the device sends in this run: the first key held down, and on
\* the Plus a turn of the first dial and a short tap too.
CloseReports ==
    IF d.readKeys = "readKeysForMultipleInputTypes"
    THEN { r \in PlusReports :
             /\ r[InputBufferLen] = 0
             /\ r[INPUT_POSITION_KNOB_USAGE_ID + 1] = 1
             /\ r[INPUT_KNOB_STATE_OFFSET + 1] \in {0, 1}
             /\ r[INPUT_POSITION_TYPE_ID + 1] \in
                  {INPUT_TYPE_ID_BUTTON, INPUT_TYPE_ID_KNOB, INPUT_TYPE_ID_TOUCH} }
    ELSE { r \in ButtonReports : r[d.keyStateOffset + 1] = 1 /\ r[Len(r)] = 0 }

\* What the worker's read returns in this step, if it returns a report, is one
\* of CloseReports.
CloseDelivery ==
    (/\ Len(stack["worker"]) = 1
     /\ stack["worker"][1].pc = "read"
     /\ stack'["worker"] # <<>>
     /\ stack'["worker"][1].pc = "asleep")
    => \/ /\ d.readKeys = "readKeysForMultipleInputTypes"
          /\ stack'["worker"][1].inputBuffer \in CloseReports
       \/ /\ d.readKeys = "readKeysForButtonsOnlyInput"
          /\ stack'["worker"][1].keyBuffer \in CloseReports

InitClose ==
    /\ model \in InputErrModels
    /\ faults = 0
    /\ history = "off"
    /\ traffic = "mixed"
    /\ InitDevice
    /\ stack = [t \in Threads |-> IF t = "worker" THEN <<ReadKeysFrame>> ELSE <<>>]

\* Time is counted up to the timeout.
CloseTick == (\A t \in CloseTimeouts : idleTime < t) /\ Tick

\* A step of the input worker.
CloseWorker ==
    /\ \/ SleepWakeStep("worker")
       \/ ButtonsStep("worker")
       \/ MultiStep("worker")
    /\ CloseDelivery

\* A step of the goroutine of SetSleepTimeout, which calls Sleep() and never
\* Wake().
CloseWatcher ==
    \/ SetBrightnessStore("watcher")
    \/ SetBrightnessCheck("watcher")
    \/ SetBrightnessSend("watcher")
    \/ FadeStart("watcher")
    \/ FadeLoop("watcher")
    \/ SleepLock("watcher")
    \/ SleepSnapshot("watcher")
    \/ SleepFaded("watcher")
    \/ SleepWritten("watcher")
    \/ WatcherStep("watcher")
    \/ WatcherDone("watcher")

NextClose ==
    \/ ~closed /\ ~Running("watcher") /\ \E t \in CloseTimeouts : SetSleepTimeout(t)
    \/ ~closed /\ CallClose
    \/ CloseStep("caller")
    \/ CloseTick
    \/ CloseWorker
    \/ CloseWatcher

SpecClose == InitClose /\ [][NextClose]_vars

FairClose ==
    /\ SpecClose
    /\ WF_vars(CloseStep("caller"))
    /\ WF_vars(CloseWorker)
    /\ WF_vars(CloseWatcher)
    /\ SF_vars(WatcherDone("watcher"))

----------------------------------------------------------------------------
(* SpecTimer: the caller calls SetSleepTimeout and Close() in any order,   *)
(* with no input worker; the goroutines SetSleepTimeout starts run and     *)
(* put the device to sleep.  FairTimer adds what the scheduler gives: a    *)
(* goroutine that can take a step takes one, a select that finds           *)
(* ctx.Done() ready again and again takes it, and a goroutine that waits   *)
(* for the sleep lock gets it when it is free again and again (a waiting   *)
(* Lock of sync.RWMutex keeps new readers out, and the mutex hands over to *)
(* a goroutine that has waited long).                                      *)

\* The timeouts the caller passes to SetSleepTimeout, in seconds.
TimerTimeouts == {0, 1}

\* One model: the timer is the same code for all.
TimerModels == {"Mini"}

InitTimer ==
    /\ model \in TimerModels
    /\ faults = 0
    /\ history = "call"
    /\ traffic = "mixed"
    /\ InitDevice
    /\ stack = [t \in Threads |-> <<>>]

\* Time is counted up to the longest timeout.
TimerTick == (\E t \in TimerTimeouts : idleTime < t) /\ Tick

\* A step of goroutine w of SetSleepTimeout, which calls Sleep().
TimerWatcher(w) ==
    \/ SetBrightnessStore(w)
    \/ SetBrightnessCheck(w)
    \/ SetBrightnessSend(w)
    \/ FadeStart(w)
    \/ FadeLoop(w)
    \/ SleepLock(w)
    \/ SleepSnapshot(w)
    \/ SleepFaded(w)
    \/ SleepWritten(w)
    \/ WatcherStep(w)
    \/ WatcherDone(w)

NextTimer ==
    \/ \E t \in TimerTimeouts : SetSleepTimeout(t)
    \/ CallClose
    \/ CloseStep("caller")
    \/ TimerTick
    \/ \E w \in Watchers : TimerWatcher(w)

SpecTimer == InitTimer /\ [][NextTimer]_vars

FairTimer ==
    /\ SpecTimer
    /\ WF_vars(CloseStep("caller"))
    /\ \A w \in Watchers :
         /\ WF_vars(TimerWatcher(w))
         /\ SF_vars(WatcherDone(w))
         /\ SF_vars(SleepLock(w))
         /\ SF_vars(WatcherRLock(w))

----------------------------------------------------------------------------
(* SpecPlus: the input worker of the Plus, the device awake, reading knob  *)
(* reports in one run and touch reports in another.                        *)

InitPlus ==
    /\ model = "Plus"
    /\ faults = 0
    /\ history = "off"
    /\ traffic \in {"knobs", "touch"}
    /\ InitDevice
    /\ stack = [t \in Threads |-> IF t = "worker" THEN <<ReadKeysFrame>> ELSE <<>>]

NextPlus ==
    \/ MultiRead("worker")
    \/ MultiAsleep("worker")
    \/ MultiLock("worker")
    \/ MultiActive("worker")
    \/ MultiKnobs("worker")
    \/ MultiTouch("worker")

SpecPlus == InitPlus /\ [][NextPlus]_vars

----------------------------------------------------------------------------
(* SpecOdd: the input worker of the Plus, the device awake, reading reports *)
(* of unknown type or usage between knob presses.                          *)

InitOdd ==
    /\ model = "Plus"
    /\ faults = 0
    /\ history = "off"
    /\ traffic = "odd"
    /\ InitDevice
    /\ stack = [t \in Threads |-> IF t = "worker" THEN <<ReadKeysFrame>> ELSE <<>>]

NextOdd ==
    \/ MultiRead("worker")
    \/ MultiAsleep("worker")
    \/ MultiLock("worker")
    \/ MultiActive("worker")
    \/ MultiKnobs("worker")
    \/ MultiTouch("worker")

SpecOdd == InitOdd /\ [][NextOdd]_vars

----------------------------------------------------------------------------
(* SpecEvents: the input worker reading reports whose key bytes are 0 or 1 *)
(* while the caller puts the device to sleep; every event sent is kept.    *)
(* Brightness and fade duration are as Open() leaves them.                 *)

\* One model of each parser, and the one that translates key indices.
EventModels == {"Original", "Mini", "Plus"}

InitEvents ==
    /\ model \in EventModels
    /\ faults = 0
    /\ history = "events"
    /\ traffic = "binary"
    /\ InitDevice
    /\ stack = [t \in Threads |-> IF t = "worker" THEN <<ReadKeysFrame>> ELSE <<>>]

NextEvents ==
    \/ CallSleep
    \/ SleepWakeStep("caller")
    \/ SleepWakeStep("worker")
    \/ ButtonsStep("worker")
    \/ MultiRead("worker")
    \/ MultiAsleep("worker")
    \/ MultiWoken("worker")
    \/ MultiLock("worker")
    \/ MultiActive("worker")
    \/ MultiButtons("worker")
    \/ MultiKnobs("worker")

SpecEvents == InitEvents /\ [][NextEvents]_vars

----------------------------------------------------------------------------
(* SpecReopen: sessions of one Device, one after the other.  The caller    *)
(* opens the device, starts the input worker with ReadKeys(), closes the   *)
(* device at any point, and opens it again when the worker has gone.  The  *)
(* device stays awake.                                                     *)

\* One model of each parser.
ReopenModels == {"Original", "Plus"}

\* The state after Devices() and the first Open(), before ReadKeys().
InitReopen ==
    /\ model \in ReopenModels
    /\ faults = 0
    /\ history = "off"
    /\ traffic = "binary"
    /\ InitDevice
    /\ stack = [t \in Threads |-> <<>>]

NextReopen ==
    \/ \E ok \in BOOLEAN : Open(ok)
    \/ ~closed /\ ReadKeys
    \/ ~closed /\ CallClose
    \/ CloseStep("caller")
    \/ ButtonsCopy("worker")
    \/ ButtonsRead("worker")
    \/ ButtonsAsleep("worker")
    \/ ButtonsLock("worker")
    \/ ButtonsActive("worker")
    \/ ButtonsDiff("worker")
    \/ MultiRead("worker")
    \/ MultiAsleep("worker")
    \/ MultiLock("worker")
    \/ MultiActive("worker")
    \/ MultiButtons("worker")
    \/ MultiKnobs("worker")

SpecReopen == InitReopen /\ [][NextReopen]_vars

----------------------------------------------------------------------------
(* SpecImage: one thread calling SetImage and, on the Plus, the            *)
(* SetTouchScreenImage, one call after the other.                          *)

ImageModels == {"Original", "Mini", "XL", "Plus"}

\* The lengths of the JPEG streams: a byte less than, exactly, and a byte more
\* than 1..MaxPages payloads of pageSize bytes.
JpegLengths(pageSize) == { k * pageSize + e : k \in 1..MaxPages, e \in {-1, 0, 1} }

\* The images handed to SetImage: of the model's size, with every length of
\* the JPEG stream where the model encodes JPEG, and a column short, a row
\* long, and both.
KeyImages ==
    { Image(d.Pixels, d.Pixels, 200, n) :
        n \in IF d.toImageFormat = "toJPEG"
              THEN JpegLengths(d.imagePageSize - d.imagePageHeaderSize)
              ELSE {d.imagePageSize} }
    \cup
    { Image(dx, dy, 200, d.imagePageSize) :
        dx \in {d.Pixels - 1, d.Pixels}, dy \in {d.Pixels, d.Pixels + 1} }

\* The images handed to SetTouchScreenImage: of the size of a segment.
TouchImages ==
    { Image(ScreenSegmentWidth, ScreenSegmentHeight, 200, n) :
        n \in JpegLengths(d.screenPageSize - d.screenPageHeaderSize) }

InitImage ==
    /\ model \in ImageModels
    /\ faults = MaxIoErrors
    /\ history = "call"
    /\ traffic = "mixed"
    /\ InitDevice
    /\ stack = [t \in Threads |-> <<>>]

NextImage ==
    \/ \E index \in {0, d.Columns * d.Rows - 1}, img \in KeyImages :
         CallSetImage(index, img)
    \/ /\ model = "Plus"
       /\ \E segmentIndex \in {0, d.ScreenSegments - 1}, img \in TouchImages :
            CallSetTouchScreenImage(segmentIndex, img)
    \/ ImageStep("caller")

SpecImage == InitImage /\ [][NextImage]_vars

----------------------------------------------------------------------------
(* SpecEcho: the input worker reads reports that show one button down, at  *)
(* any raw position, or none (a button goes down when all are up); the     *)
(* caller answers the press of a key with SetImage for the index of the    *)
(* event.  The device is awake, the transport works, and no report arrives *)
(* once the caller has answered.                                           *)

\* An image of the size of a key, of one page where the model encodes JPEG.
EchoImage == Image(d.Pixels, d.Pixels, 200, d.imagePageSize - d.imagePageHeaderSize)

InitEcho ==
    /\ model \in Models
    /\ faults = 0
    /\ history = "call"
    /\ traffic = "single"
    /\ InitDevice
    /\ stack = [t \in Threads |-> IF t = "worker" THEN <<ReadKeysFrame>> ELSE <<>>]

NextEcho ==
    \/ EchoSetImage(EchoImage)
    \/ SetImageCheck("caller")
    \/ SetImagePage("caller")
    \/ SetImageReturn("caller")
    \/ ButtonsCopy("worker")
    \/ call.op = "none" /\ ButtonsRead("worker")
    \/ ButtonsAsleep("worker")
    \/ ButtonsLock("worker")
    \/ ButtonsActive("worker")
    \/ ButtonsDiff("worker")
    \/ call.op = "none" /\ MultiRead("worker")
    \/ MultiAsleep("worker")
    \/ MultiLock("worker")
    \/ MultiActive("worker")
    \/ MultiButtons("worker")

SpecEcho == InitEcho /\ [][NextEcho]_vars

----------------------------------------------------------------------------
(* SpecTouchless: one thread calling SetTouchScreenImage on the models     *)
(* without a touch strip.                                                  *)

TouchlessModels == Models \ {"Plus"}

\* The images handed over: one pixel or the width of a key wide, one or two
\* pixels high, which every model encodes (a BMP of 54 + 3*dx*dy bytes, a JPEG
\* stream of a few bytes).
TouchlessImages ==
    { Image(dx, dy, 200, n) : dx \in {1, d.Pixels}, dy \in {1, 2}, n \in {4, 6} }

InitTouchless ==
    /\ model \in TouchlessModels
    /\ faults = MaxIoErrors
    /\ history = "call"
    /\ traffic = "mixed"
    /\ InitDevice
    /\ stack = [t \in Threads |-> <<>>]

NextTouchless ==
    \/ \E segmentIndex \in {0, 3}, img \in TouchlessImages :
         CallSetTouchScreenImage(segmentIndex, img)
    \/ SetTouchScreenImageStart("caller")
    \/ SetTouchScreenImagePanic("caller")

SpecTouchless == InitTouchless /\ [][NextTouchless]_vars

----------------------------------------------------------------------------
(* SpecPager: the pager alone, asked for its pages one after the other,    *)
(* and for two past the last.                                              *)

PagerBytes == {0, 1}

PagerImages ==
    UNION { [1..n -> PagerBytes] : n \in 1..MaxImageLen }

PagerFrame(image, pageSize) ==
    [fn |-> "imageData", pc |-> "page", imageData |-> imageData(image, pageSize),
     pageIndex |-> 0, pages |-> <<>>]

InitPager ==
    /\ model = "XL"
    /\ faults = 0
    /\ history = "off"
    /\ traffic = "mixed"
    /\ InitDevice
    /\ \E image \in PagerImages, pageSize \in 1..MaxPageSize :
         stack = [t \in Threads |->
                    IF t = "caller" THEN <<PagerFrame(image, pageSize)>> ELSE <<>>]

\* d.Page(pageIndex); pageIndex++
PagerPage(t) ==
    /\ At(t, "imageData", "page")
    /\ Top(t).pageIndex <= PageCount(Top(t).imageData) + 1
    /\ stack' = SetTop(t, [Top(t) EXCEPT
                             !.pages = Append(@, Page(Top(t).imageData, Top(t).pageIndex)),
                             !.pageIndex = @ + 1])
    /\ UNCHANGED <<cfgVars, inputVars, imageVars, brightness, preSleepBrightness,
                   asleep, fadeDuration, idleTime, sleepMutex, featureReport,
                   ioErrors, ret, call, prevCall>>

NextPager == PagerPage("caller")

SpecPager == InitPager /\ [][NextPager]_vars

----------------------------------------------------------------------------
(* SpecHeader: the header of one page as SetImage asks for it on the       *)
(* Original and the Mini: the index is translated, and both 16-byte        *)
(* headers are made of the same page index, key and last-page flag.        *)

HeaderModels == {"Original", "Mini"}

\* The page indices of the BMP of a key: 2 pages on the Original, 19 on the
\* Mini.
HeaderPages == 0..19

\* index is a uint8.
HeaderIndices == 0..255

\* The payload of a full page of the model.
HeaderPayload == d.imagePageSize - d.imagePageHeaderSize

HeaderFrame(index, page, lastPage) ==
    [fn |-> "imagePageHeader", pc |-> "key", index |-> index, page |-> page,
     lastPage |-> lastPage, keyIndex |-> 0, rev1 |-> <<>>, mini |-> <<>>]

InitHeader ==
    /\ model \in HeaderModels
    /\ faults = 0
    /\ history = "off"
    /\ traffic = "mixed"
    /\ InitDevice
    /\ \E index \in HeaderIndices, page \in HeaderPages, lastPage \in BOOLEAN :
         stack = [t \in Threads |->
                    IF t = "caller" THEN <<HeaderFrame(index, page, lastPage)>> ELSE <<>>]

\* d.translateKeyIndex(index, d.Columns)
HeaderKey(t) ==
    /\ At(t, "imagePageHeader", "key")
    /\ stack' = SetTop(t, [Top(t) EXCEPT !.keyIndex = translateKeyIndex(Top(t).index),
                                         !.pc = "rev1"])
    /\ UNCHANGED <<cfgVars, inputVars, imageVars, brightness, preSleepBrightness,
                   asleep, fadeDuration, idleTime, sleepMutex, featureReport,
                   ioErrors, ret, call, prevCall>>

\* rev1ImagePageHeader(page, keyIndex, len(payload), lastPage)
HeaderRev1(t) ==
    /\ At(t, "imagePageHeader", "rev1")
    /\ stack' = SetTop(t, [Top(t) EXCEPT
                             !.rev1 = rev1ImagePageHeader(Top(t).page, Top(t).keyIndex,
                                                          HeaderPayload, Top(t).lastPage),
                             !.pc = "mini"])
    /\ UNCHANGED <<cfgVars, inputVars, imageVars, brightness, preSleepBrightness,
                   asleep, fadeDuration, idleTime, sleepMutex, featureReport,
                   ioErrors, ret, call, prevCall>>

\* miniImagePageHeader(page, keyIndex, len(payload), lastPage)
HeaderMini(t) ==
    /\ At(t, "imagePageHeader", "mini")
    /\ stack' = SetTop(t, [Top(t) EXCEPT
                             !.mini = miniImagePageHeader(Top(t).page, Top(t).keyIndex,
                                                          HeaderPayload, Top(t).lastPage),
                             !.pc = "done"])
    /\ UNCHANGED <<cfgVars, inputVars, imageVars, brightness, preSleepBrightness,
                   asleep, fadeDuration, idleTime, sleepMutex, featureReport,
                   ioErrors, ret, call, prevCall>>

NextHeader ==
    \/ HeaderKey("caller")
    \/ HeaderRev1("caller")
    \/ HeaderMini("caller")

SpecHeader == InitHeader /\ [][NextHeader]_vars

----------------------------------------------------------------------------
(* SpecTranslate: d.translateKeyIndex alone, applied to an index and then  *)
(* to its own result, for every model and every uint8 index.              *)

TranslateFrame(index) ==
    [fn |-> "translateKeyIndex", pc |-> "once", index |-> index, once |-> 0, twice |-> 0]

InitTranslate ==
    /\ model \in Models
    /\ faults = 0
    /\ history = "off"
    /\ traffic = "mixed"
    /\ InitDevice
    /\ \E index \in 0..255 :
         stack = [t \in Threads |->
                    IF t = "caller" THEN <<TranslateFrame(index)>> ELSE <<>>]

\* once := d.translateKeyIndex(index, d.Columns)
TranslateOnce(t) ==
    /\ At(t, "translateKeyIndex", "once")
    /\ stack' = SetTop(t, [Top(t) EXCEPT !.once = translateKeyIndex(Top(t).index),
                                         !.pc = "twice"])
    /\ UNCHANGED <<cfgVars, inputVars, imageVars, brightness, preSleepBrightness,
                   asleep, fadeDuration, idleTime, sleepMutex, featureReport,
                   ioErrors, ret, call, prevCall>>

\* twice := d.translateKeyIndex(once, d.Columns)
TranslateTwice(t) ==
    /\ At(t, "translateKeyIndex", "twice")
    /\ stack' = SetTop(t, [Top(t) EXCEPT !.twice = translateKeyIndex(Top(t).once),
                                         !.pc = "done"])
    /\ UNCHANGED <<cfgVars, inputVars, imageVars, brightness, preSleepBrightness,
                   asleep, fadeDuration, idleTime, sleepMutex, featureReport,
                   ioErrors, ret, call, prevCall>>

NextTranslate ==
    \/ TranslateOnce("caller")
    \/ TranslateTwice("caller")

SpecTranslate == InitTranslate /\ [][NextTranslate]_vars

----------------------------------------------------------------------------
(* SpecClear: one thread calling Clear.                                    *)

\* One model of each page header, the Original translating key indices.
ClearModels == {"Original", "Mini", "Plus"}

\* The lengths of the JPEG stream of the black image: one page, and a byte more.
ClearJpegLengths ==
    { d.imagePageSize - d.imagePageHeaderSize + e : e \in {0, 1} }

InitClear ==
    /\ model \in ClearModels
    /\ faults = MaxIoErrors
    /\ history = "call"
    /\ traffic = "mixed"
    /\ InitDevice
    /\ stack = [t \in Threads |-> <<>>]

NextClear ==
    \/ \E jpeg \in ClearJpegLengths : CallClear(jpeg)
    \/ ClearStep("caller")
    \/ SetImageCheck("caller")
    \/ SetImagePage("caller")
    \/ SetImageReturn("caller")

SpecClear == InitClear /\ [][NextClear]_vars

----------------------------------------------------------------------------
(* Claims.                                                                 *)

\* The frames of the caller's stack.
CallerStack == stack["caller"]

\* C3: Sleep() then Wake() on an awake device with brightness p, the
\* transport succeeding and nothing running beside them: between the two
\* calls the device is asleep with 0 written last; after Wake() it is awake
\* with brightness p in memory and p written last, whatever the fade
\* duration.  Sleep takes its steps in the order snapshot, fade, set asleep,
\* write 0: while it fades the snapshot is taken and asleep is still false,
\* and asleep is true when the closing SetBrightness(0) runs.
C3_SleepWakeRoundTrip ==
    /\ (call.op = "Sleep" /\ call.done /\ ~call.asleep0 /\ ~ioFailed)
         => (asleep /\ WireBrightness = 0 /\ preSleepBrightness = call.b0)
    /\ (call.op = "Wake" /\ call.done /\ prevCall.op = "Sleep"
          /\ ~prevCall.asleep0 /\ ~ioFailed)
         => (~asleep /\ brightness = prevCall.b0 /\ WireBrightness = prevCall.b0)
    /\ (call.op = "Sleep" /\ ~call.done /\ ~call.asleep0)
         => /\ CallerStack[1].pc = "faded"
                => (preSleepBrightness = call.b0 /\ ~asleep)
            /\ CallerStack[1].pc = "written"
                => /\ preSleepBrightness = call.b0 /\ asleep
                   /\ Len(CallerStack) = 2
                        => /\ CallerStack[2].fn = "SetBrightness"
                           /\ CallerStack[2].percent = 0

\* C3's case: a Sleep()/Wake() pair has completed on a device that was awake
\* at brightness 100, with a fade of at least one tick.
C3_Witness ==
    /\ call.op = "Wake" /\ call.done /\ prevCall.op = "Sleep"
    /\ ~prevCall.asleep0 /\ prevCall.b0 = 100 /\ ~ioFailed
    /\ fadeDuration >= fadeDelay /\ call.sent
    /\ WireBrightness = 100

\* C4: SetBrightness(p) with p > 0 on a sleeping device sends no feature
\* report, records min(p, 100) as preSleepBrightness and leaves the device
\* asleep; the Wake() that follows it, when it returns without error, has
\* written a brightness report carrying that value last.
C4_AsleepSetBrightness ==
    /\ (call.op = "SetBrightness" /\ call.asleep0 /\ call.p > 0)
         => /\ ~call.sent
            /\ asleep
            /\ call.done => preSleepBrightness = Min(call.p, 100)
    /\ (call.op = "Wake" /\ call.done /\ call.ret = "nil"
          /\ prevCall.op = "SetBrightness" /\ prevCall.asleep0 /\ prevCall.p > 0)
         => (call.sent /\ WireBrightness = Min(prevCall.p, 100) /\ ~asleep)

\* C4's case: SetBrightness(255) was called asleep and the next Wake() has
\* returned.
C4_Witness ==
    /\ call.op = "Wake" /\ call.done /\ call.ret = "nil"
    /\ prevCall.op = "SetBrightness" /\ prevCall.asleep0 /\ prevCall.p = 255
    /\ WireBrightness = 100

\* C6: brightness and preSleepBrightness never exceed 100, no brightness
\* report carries more than 100, and SetBrightness(p) with p > 100 on an
\* awake device, when the transport accepts the report, writes exactly 100.
C6_BrightnessBound ==
    /\ brightness <= 100
    /\ preSleepBrightness <= 100
    /\ WireBrightness <= 100
    /\ (call.op = "SetBrightness" /\ call.done /\ ~call.asleep0
          /\ call.p > 100 /\ call.ret = "nil")
         => (call.sent /\ WireBrightness = 100 /\ brightness = 100)

\* C6's case: SetBrightness(255) has returned on an awake device, and a
\* Fade from 130 has passed a value above 100 to SetBrightness.
C6_Witness ==
    \/ /\ call.op = "SetBrightness" /\ call.done /\ ~call.asleep0
       /\ call.p = 255 /\ call.ret = "nil"
    \/ /\ call.op = "Fade" /\ Len(CallerStack) = 2
       /\ CallerStack[2].fn = "SetBrightness" /\ CallerStack[2].percent > 100

\* The frames of the input worker's stack.
WorkerStack == stack["worker"]

\* The key bytes of a report of the buttons-only parser.
ButtonBytes(keyBuffer) ==
    [k \in 1..d.Keys |-> keyBuffer[d.keyStateOffset + k]]

\* The positions below `upto` where the report differs from the key state,
\* ascending.
ChangedBelow(keyBuffer, state, upto) ==
    SelectSeq([k \in 1..d.Keys |-> k - 1],
              LAMBDA i : i < upto /\ keyBuffer[d.keyStateOffset + i + 1] # state[i + 1])

\* One event per changed position below `upto`, in ascending position.
ExpectedKeys(keyBuffer, state, upto) ==
    LET changed == ChangedBelow(keyBuffer, state, upto)
    IN  [n \in 1..Len(changed) |->
            [Index |-> IF d.translateKeyIndex = "translateRightToLeft"
                       THEN translateRightToLeft(changed[n], d.Columns)
                       ELSE changed[n],
             Pressed |-> keyBuffer[d.keyStateOffset + changed[n] + 1] = 1,
             Holdable |-> TRUE]]

\* C1: for a report the buttons-only parser read while the device was awake,
\* the events emitted are exactly one per position i in [0, key_count) whose
\* report byte differs from key_state[i], in ascending i, each with
\* index = translate(i, columns), pressed = (byte == 1) and holdable = true:
\* while the parser walks the report it has emitted the events of the
\* positions it has passed, and when it has finished, those of all positions
\* (none for an unchanged report); when it reads the next report key_state
\* equals the button bytes of this one.
C1_ButtonsOnlyEvents ==
    (WorkerStack # <<>> /\ WorkerStack[1].fn = "readKeysForButtonsOnlyInput"
        /\ ~WorkerStack[1].woke)
    => LET f == WorkerStack[1]
       IN  /\ f.pc = "diff"
               => emitted = ExpectedKeys(f.keyBuffer, keyState, f.i - d.keyStateOffset)
           /\ f.pc = "copy"
               => emitted = ExpectedKeys(f.keyBuffer, keyState, d.Keys)
           /\ f.pc = "read" => keyState = ButtonBytes(f.keyBuffer)

\* Both keys of a report changed against the key state, the parser has walked
\* the report and emitted the two events, the lower position first.
C1_Witness ==
    /\ WorkerStack # <<>>
    /\ WorkerStack[1].fn = "readKeysForButtonsOnlyInput"
    /\ WorkerStack[1].pc = "copy"
    /\ ~WorkerStack[1].woke
    /\ Len(emitted) = 2
    /\ emitted[1].Index = translateKeyIndex(0)
    /\ emitted[2].Index = translateKeyIndex(d.Keys - 1)
    /\ d.translateKeyIndex = "translateRightToLeft"
    /\ ~emitted[1].Pressed

\* The worker's Wake() returns to the parser.
WorkerWakeReturns ==
    /\ Len(WorkerStack) = 2
    /\ WorkerStack[2].fn = "Wake"
    /\ Len(stack'["worker"]) = 1

\* C2: when either parser reads a report while the device is asleep, it calls
\* Wake(), emits no Key event for that report, and the device is awake
\* (asleep = false) when Wake() returns to the parser, before the next report
\* is read.
C2_WakeSwallowsReport ==
    [][ /\ (stack'["worker"] # <<>> /\ stack'["worker"][1].pc = "woken")
            => /\ emitted' = <<>>
               /\ Len(stack'["worker"]) >= 2 => stack'["worker"][2].fn = "Wake"
        /\ (stack'["worker"] # <<>> /\ stack'["worker"][1].woke) => emitted' = <<>>
        /\ WorkerWakeReturns => ~asleep'
        /\ (WorkerStack # <<>> /\ WorkerStack[1].pc = "asleep" /\ asleep
              /\ stack'["worker"] # WorkerStack)
            => /\ Len(stack'["worker"]) = 2
               /\ stack'["worker"][2].fn = "Wake"
      ]_vars

\* The Plus parser has read a button report with a key down while the device
\* slept, has called Wake(), and is back at its read with nothing emitted.
C2_Witness ==
    /\ model = "Plus"
    /\ WorkerStack # <<>>
    /\ WorkerStack[1].woke
    /\ WorkerStack[1].pc = "read"
    /\ WorkerStack[1].inputBuffer[INPUT_POSITION_TYPE_ID + 1] = INPUT_TYPE_ID_BUTTON
    /\ ~asleep
    /\ brightness = 100
    /\ emitted = <<>>

\* A Sleep() or Wake() call is under way in some thread.
SleepOrWakeInProgress ==
    \E t \in Threads : \E n \in 1..Len(stack[t]) : stack[t][n].fn \in {"Sleep", "Wake"}

\* C5: whenever the device is asleep and no Sleep() or Wake() is in progress,
\* the last brightness written to the device is 0, for every interleaving of
\* the caller's SetBrightness with the Sleep() of the sleep-timeout goroutine.
C5_AsleepMeansDark ==
    (asleep /\ ~SleepOrWakeInProgress) => WireBrightness = 0

\* ceil(n / p)
CeilDiv(n, p) == (n + p - 1) \div p

\* C7: within one SetImage call in which no write has failed, on an encoded
\* image of |B| bytes with payload size P = imagePageSize - imagePageHeaderSize,
\* the frames written carry the page indices 0, 1, 2, ... in this order with
\* no gap or repeat, no frame before the final one carries the last-page flag,
\* and when the call has returned nil exactly ceil(|B| / P) frames were
\* written and the final one carries the flag (nothing is written after it).
C7_SetImagePaging ==
    (call.op = "SetImage" /\ \A n \in 1..Len(frames.writes) : frames.writes[n].ok)
    => LET w == frames.writes
           P == d.imagePageSize - d.imagePageHeaderSize
       IN  /\ \A n \in 1..Len(w) : w[n].page = n - 1
           /\ \A n \in 1..(Len(w) - 1) : ~w[n].last
           /\ (call.done /\ call.ret = "nil")
                => /\ Len(w) = CeilDiv(frames.bytes, P)
                   /\ Len(w) >= 1
                   /\ w[Len(w)].last

\* SetImage has returned nil after an image of two full payloads and a byte:
\* three frames were written.
C7_Witness ==
    /\ call.op = "SetImage"
    /\ call.done
    /\ call.ret = "nil"
    /\ Len(frames.writes) = 3
    /\ frames.writes[3].length = 1
    /\ frames.writes[3].last
    /\ frames.bytes = 2 * (d.imagePageSize - d.imagePageHeaderSize) + 1

\* The payloads of the first n pages, one after the other.
RECURSIVE Joined(_, _)
Joined(pages, n) ==
    IF n = 0 THEN <<>> ELSE Joined(pages, n - 1) \o pages[n].payload

\* The pages the caller has asked the pager for.
Pager == stack["caller"][1]

\* C8: for a non-empty image B and a page size P >= 1, of the pages Page(0),
\* Page(1), ... asked for so far: every page before the last has a payload of
\* P bytes and last = false; page PageCount()-1 has last = true and a payload
\* of 1..P bytes; every page from PageCount() on has an empty payload and
\* last = true; and once PageCount() pages have been asked for, their payloads
\* one after the other are B.
C8_PagerRoundTrip ==
    (stack["caller"] # <<>> /\ Pager.fn = "imageData")
    => LET dd == Pager.imageData
           n == PageCount(dd)
           pages == Pager.pages
       IN  /\ n = CeilDiv(Len(dd.image), dd.pageSize)
           /\ \A i \in 1..Len(pages) :
                /\ i < n => (Len(pages[i].payload) = dd.pageSize /\ ~pages[i].last)
                /\ i = n => /\ pages[i].last
                            /\ Len(pages[i].payload) >= 1
                            /\ Len(pages[i].payload) <= dd.pageSize
                /\ i > n => (pages[i].payload = <<>> /\ pages[i].last)
           /\ Len(pages) >= n => Joined(pages, n) = dd.image

\* An image of three bytes in pages of two: both pages and the two past the
\* last have been asked for, and the last page is the shorter one.
C8_Witness ==
    /\ stack["caller"] # <<>>
    /\ Pager.fn = "imageData"
    /\ Len(Pager.imageData.image) = 3
    /\ Pager.imageData.image[1] # Pager.imageData.image[3]
    /\ Pager.imageData.pageSize = 2
    /\ Len(Pager.pages) = 4
    /\ Len(Pager.pages[2].payload) = 1

\* C9: SetImage with an image whose width or height differs from the model's
\* Pixels hands no output report to the transport, returns an error, and no
\* step of the call changes the state of the device.
C9_WrongDimensions ==
    [][ (call'.op = "SetImage"
           /\ (call'.p.img.dx # d.Pixels \/ call'.p.img.dy # d.Pixels))
        => /\ frames'.writes = <<>>
           /\ written' = <<>>
           /\ ioErrors' = ioErrors
           /\ call'.done => call'.ret = "err"
           /\ UNCHANGED <<inputVars, brightness, preSleepBrightness, asleep,
                          fadeDuration, idleTime, sleepMutex, featureReport>>
      ]_vars

\* SetImage has returned an error for an image a column short, with no
\* transport error in the run.
C9_Witness ==
    /\ call.op = "SetImage"
    /\ call.done
    /\ call.ret = "err"
    /\ call.p.img.dx = d.Pixels - 1
    /\ call.p.img.dy = d.Pixels
    /\ ioErrors = 0

\* C10: when the transport write of a page fails during SetImage or
\* SetTouchScreenImage, the call has returned an error in that step, the
\* failed write is the last one of the call (no page after it is written), and
\* the pages before it were written once each, in order.
C10_WriteFailureAborts ==
    (call.op \in {"SetImage", "SetTouchScreenImage"})
    => LET w == frames.writes
       IN  \A n \in 1..Len(w) :
             ~w[n].ok
             => /\ n = Len(w)
                /\ call.done
                /\ call.ret = "err"
                /\ w[n].page = n - 1
                /\ \A m \in 1..(n - 1) : w[m].ok /\ w[m].page = m - 1

\* The write of the second page of a touch screen image has failed.
C10_Witness ==
    /\ call.op = "SetTouchScreenImage"
    /\ call.done
    /\ call.ret = "err"
    /\ Len(frames.writes) = 2
    /\ frames.writes[1].ok
    /\ ~frames.writes[2].ok

\* The frames of a Clear that open the upload of a button.
FirstPages == SelectSeq(frames.writes, LAMBDA w : w.page = 0)

\* C11: during a Clear() on a device whose transport never fails, SetImage is
\* called with button indices in [0, Columns*Rows) only, every frame written
\* addresses an existing button, no button is addressed by two uploads, and
\* when Clear has returned every button in [0, Columns*Rows) has had its
\* upload, and there were Columns*Rows uploads.
C11_ClearEveryButtonOnce ==
    (call.op = "Clear" /\ ~ioFailed)
    => LET buttons == 0..(d.Columns * d.Rows - 1)
       IN  /\ \A n \in 1..Len(CallerStack) :
                CallerStack[n].fn = "SetImage" => CallerStack[n].index \in buttons
           /\ \A n \in 1..Len(frames.writes) : frames.writes[n].key \in buttons
           /\ \A m, n \in 1..Len(FirstPages) :
                FirstPages[m].key = FirstPages[n].key => m = n
           /\ call.done
                => /\ call.ret = "nil"
                   /\ Len(FirstPages) = d.Columns * d.Rows
                   /\ { FirstPages[n].key : n \in 1..Len(FirstPages) } = buttons

\* The worker's transport read returns an error in this step.
WorkerReadFails ==
    /\ WorkerStack # <<>>
    /\ Len(WorkerStack) = 1
    /\ WorkerStack[1].pc = "read"
    /\ stack'["worker"] # WorkerStack
    /\ ioErrors' = ioErrors + 1

\* C12: the step in which a transport read of the input worker returns an
\* error closes the event channel, which was open, sends nothing on it, and
\* ends the worker, asleep or awake, in either parser; the channel is closed
\* in no other step; once it is closed the worker is gone for good, so there
\* is no further read, send or close.
C12_ReadErrorClosesChannel ==
    [][ /\ WorkerReadFails
            => /\ ~kchClosed
               /\ kchClosed'
               /\ emitted' = emitted
               /\ stack'["worker"] = <<>>
        /\ (~kchClosed /\ kchClosed') => WorkerReadFails
        /\ kchClosed
            => /\ kchClosed'
               /\ WorkerStack = <<>>
               /\ stack'["worker"] = <<>>
               /\ emitted' = emitted
      ]_vars

\* The channel of the Plus is closed with the device asleep (the worker will
\* not wake it), after events of an earlier report were sent.
C12_Witness ==
    /\ model = "Plus"
    /\ kchClosed
    /\ WorkerStack = <<>>
    /\ asleep
    /\ emitted # <<>>

NoWake ==
    \A t \in Threads : \A n \in 1..Len(stack[t]) : stack[t][n].fn # "Wake"

\* C14: with the goroutine of SetSleepTimeout(t), t > 0, running, transport
\* writes succeeding and no input worker reading reports, if from some point
\* on no Wake() occurs then the device eventually is asleep and stays asleep;
\* and asleep is never cleared but by a step of Wake().
C14_IdleSleep ==
    /\ (<>[]NoWake) => <>[]asleep
    /\ [][(asleep /\ ~asleep') => ~NoWake]_vars

\* The watcher has put the idle device to sleep from brightness 100 and is
\* back at its select.
C14_Witness ==
    /\ asleep
    /\ CallerIdle
    /\ stack["watcher"][1].pc = "select"
    /\ Len(stack["watcher"]) = 1
    /\ preSleepBrightness = 100
    /\ WireBrightness = 0
    /\ idleTime >= stack["watcher"][1].timeout

----------------------------------------------------------------------------
(* Claims about the knob and touch reports of the Plus.                    *)

\* The worker is back at its read after handling the report in its buffer.
PlusHandled ==
    /\ stack["worker"] # <<>>
    /\ At("worker", "readKeysForMultipleInputTypes", "read")
    /\ ~Top("worker").woke
    /\ Top("worker").inputBuffer[1] = 1

\* The type and the usage byte of the report in the worker's buffer.
PlusType == Top("worker").inputBuffer[INPUT_POSITION_TYPE_ID + 1]
PlusUsage == Top("worker").inputBuffer[INPUT_POSITION_KNOB_USAGE_ID + 1]

\* The byte of knob k (report byte 5 + k).
KnobByte(k) == Top("worker").inputBuffer[5 + k + 1]

\* Does knob k produce an event in the report being walked?
KnobFires(k) ==
    IF PlusUsage = INPUT_KNOB_USAGE_PRESS
    THEN KnobByte(k) # keyState[8 + k + 1]
    ELSE KnobByte(k) # 0

\* C15: Plus knob index mapping.  Walking a knob report from knob k0 on, the
\* parser passes the knobs that produce nothing (a press byte equal to
\* key_state[8+k], a zero dial byte) and, at the first knob k that produces an
\* event, emits exactly that event: for a press report index 8+k, holdable,
\* pressed = (value = 1), with key_state[8+k] updated; for a dial report index
\* 12+k or 16+k, pressed, not holdable, key_state untouched.  It goes on after k,
\* so events come one per knob in ascending k; when no knob is left that
\* produces an event, it emits nothing more and returns to its read.
C15_KnobIndexMapping ==
    [][ (stack["worker"] # <<>> /\ At("worker", "readKeysForMultipleInputTypes", "knobs"))
        => LET k0 == Top("worker").i - 5
               firing == { k \in k0..3 : KnobFires(k) }
           IN  IF firing = {}
               THEN /\ emitted' = emitted
                    /\ keyState' = keyState
                    /\ stack'["worker"] = Goto("worker", "read")["worker"]
               ELSE LET k == SetMin(firing)
                        v == KnobByte(k)
                    IN  /\ stack'["worker"] =
                              <<[Top("worker") EXCEPT !.i = 5 + k + 1]>>
                        /\ IF PlusUsage = INPUT_KNOB_USAGE_PRESS
                           THEN /\ emitted' = Append(emitted, Key(8 + k, v = 1, TRUE))
                                /\ keyState' = [keyState EXCEPT ![8 + k + 1] = v]
                           ELSE /\ \E index \in {12 + k, 16 + k} :
                                     emitted' = Append(emitted, Key(index, TRUE, FALSE))
                                /\ keyState' = keyState ]_vars

\* C15 witness: knob 0 is held from an earlier press report, and the worker
\* has handled a dial report turning knob 0 by 1 and knob 2 by 0xFC: two
\* events, knob 0's first.
C15_Witness ==
    /\ PlusHandled
    /\ PlusType = INPUT_TYPE_ID_KNOB
    /\ PlusUsage = INPUT_KNOB_USAGE_DIAL
    /\ keyState[8 + 0 + 1] = 1
    /\ KnobByte(0) = 1 /\ KnobByte(1) = 0 /\ KnobByte(2) = 252 /\ KnobByte(3) = 0
    /\ Len(emitted) = 2
    /\ emitted[1].Index \in {12, 16}
    /\ emitted[2].Index \in {14, 18}

\* The worker has handled a dial report.
DialHandled ==
    /\ PlusHandled
    /\ PlusType = INPUT_TYPE_ID_KNOB
    /\ PlusUsage = INPUT_KNOB_USAGE_DIAL

\* An event with this index was emitted for the report read last.
EmittedIndex(index) ==
    \E j \in 1..Len(emitted) : emitted[j].Index = index

\* C16: dial direction threshold.  After a dial report, every knob k with a
\* non-zero byte v has given a left turn (index 12+k) exactly when v > 127 and
\* a right turn (index 16+k) exactly when 1 <= v <= 127.
C16_DialThreshold ==
    DialHandled
    => \A k \in 0..3 :
         LET v == KnobByte(k)
         IN  v # 0 => /\ EmittedIndex(12 + k) <=> v > 127
                      /\ EmittedIndex(16 + k) <=> v <= 127

\* The report of scenario S3: knob type, dial usage, byte 7 = 0xFC, the other
\* bytes from 5 on zero.
ReportS3 ==
    PlusReport((1 :> INPUT_TYPE_ID_KNOB) @@ (4 :> INPUT_KNOB_USAGE_DIAL) @@ (7 :> 252))

\* The worker has handled the report of scenario S3.
HandledS3 ==
    /\ PlusHandled
    /\ Top("worker").inputBuffer = ReportS3

\* C17 as stated: the report of scenario S3 produces exactly one event, with
\* index 13, pressed and not holdable.
C17_ScenarioS3AsStated ==
    HandledS3 => emitted = <<Key(13, TRUE, FALSE)>>

\* C17: the report of scenario S3 (byte 7 is the byte of knob 2) produces
\* exactly one event, with index 8 + 4 + 2 = 14, pressed and not holdable.
C17_ScenarioS3 ==
    HandledS3 => emitted = <<Key(14, TRUE, FALSE)>>

\* C17 witness: the worker has handled the report of scenario S3 and one event
\* was emitted.
C17_Witness ==
    /\ HandledS3
    /\ Len(emitted) = 1

\* The worker has handled a touch report.
TouchHandled ==
    /\ PlusHandled
    /\ PlusType = INPUT_TYPE_ID_TOUCH

\* x (bytes 6..7) and x2 (bytes 10..11) of the report in the worker's buffer.
TouchX == Top("worker").inputBuffer[6 + 1] + 256 * Top("worker").inputBuffer[7 + 1]
TouchX2 == Top("worker").inputBuffer[10 + 1] + 256 * Top("worker").inputBuffer[11 + 1]

\* C18: Plus touch taps.  After a tap report with x in [0, screen_width),
\* exactly one event was emitted, pressed and not holdable, with index
\* 20 + floor(x/200) for a short tap (within 20..23) and 24 + floor(x/200) for a
\* long tap (within 24..27).
C18_TouchTaps ==
    (TouchHandled /\ PlusUsage \in {INPUT_TOUCH_USAGE_SHORT, INPUT_TOUCH_USAGE_LONG}
                  /\ TouchX < d.ScreenWidth)
    => /\ Len(emitted) = 1
       /\ emitted[1].Pressed
       /\ ~emitted[1].Holdable
       /\ PlusUsage = INPUT_TOUCH_USAGE_SHORT
            => /\ emitted[1].Index = 20 + (TouchX \div 200)
               /\ emitted[1].Index \in 20..23
       /\ PlusUsage = INPUT_TOUCH_USAGE_LONG
            => /\ emitted[1].Index = 24 + (TouchX \div 200)
               /\ emitted[1].Index \in 24..27

\* C18 witness: the worker has handled a long tap on the last pixel of the
\* strip, and the event of the last long-tap segment was emitted.
C18_Witness ==
    /\ TouchHandled
    /\ PlusUsage = INPUT_TOUCH_USAGE_LONG
    /\ TouchX = 799
    /\ emitted = <<Key(27, TRUE, FALSE)>>

\* What the swipe rule gives for start = floor(x/40) and stop = floor(x2/40).
SwipeEvents ==
    LET start == TouchX \div 40
        stop == TouchX2 \div 40
    IN  IF start < stop THEN <<Key(28, TRUE, FALSE)>>
        ELSE IF start > stop THEN <<Key(29, TRUE, FALSE)>>
        ELSE <<>>

\* The worker has handled a swipe report.
SwipeHandled ==
    /\ TouchHandled
    /\ PlusUsage = INPUT_TOUCH_USAGE_SWIPE

\* C19 as stated: after a swipe report with any x and x2, the events emitted
\* are those of the swipe rule.
C19_SwipeAsStated ==
    SwipeHandled => emitted = SwipeEvents

\* C19: Plus swipe.  After a swipe report with x and x2 below 40 * 256 = 10240
\* (which every position of the strip is), with start = floor(x/40) and
\* stop = floor(x2/40): exactly one event with index 28 if start < stop, exactly
\* one with index 29 if start > stop, none if start = stop; the events are
\* pressed and not holdable.
C19_Swipe ==
    (SwipeHandled /\ TouchX < 40 * 256 /\ TouchX2 < 40 * 256)
    => emitted = SwipeEvents

\* C19 witness: the worker has handled the swipe from x = 50 to x2 = 500 and
\* the left-to-right event was emitted.
C19_Witness ==
    /\ SwipeHandled
    /\ TouchX = 50
    /\ TouchX2 = 500
    /\ emitted = <<Key(28, TRUE, FALSE)>>

----------------------------------------------------------------------------
(* Claims about the feature reports.                                       *)

\* The feature-report size of the model: 17 for the Original and the Mini, 32
\* for the others.
FeatureSize == IF model \in {"Original", "Mini"} THEN 17 ELSE 32

\* The command prefixes of the model, by operation.
FeaturePrefix(op) ==
    IF model \in {"Original", "Mini"}
    THEN CASE op = "FirmwareVersion" -> <<4>>
           [] op = "Reset" -> <<11, 99>>
           [] op = "SetBrightness" -> <<5, 85, 170, 209, 1>>
    ELSE CASE op = "FirmwareVersion" -> <<5>>
           [] op = "Reset" -> <<3, 2>>
           [] op = "SetBrightness" -> <<3, 8>>

\* The report begins with the bytes of lead and is zero after them.
LeadThenZeros(report, lead) ==
    /\ Len(lead) <= Len(report)
    /\ \A i \in 1..Len(report) :
         report[i] = IF i <= Len(lead) THEN lead[i] ELSE 0

\* C20: every feature report the transport was handed has exactly
\* feature_report_size bytes (17 on the Original and the Mini, 32 on the
\* others), begins with the command prefix of the model for a firmware query,
\* a reset or a brightness (followed, for brightness, by a percentage byte of
\* 0..100) and is zero after that; and the report of a FirmwareVersion, Reset
\* or SetBrightness(p) call that has handed one over is the one of its own
\* command, with min(p, 100) as the percentage byte.
C20_FeatureReports ==
    featureReport # <<>>
    => /\ Len(featureReport) = FeatureSize
       /\ \/ LeadThenZeros(featureReport, FeaturePrefix("FirmwareVersion"))
          \/ LeadThenZeros(featureReport, FeaturePrefix("Reset"))
          \/ \E percent \in 0..100 :
               LeadThenZeros(featureReport,
                             Append(FeaturePrefix("SetBrightness"), percent))
       /\ (call.sent /\ call.ret = "nil" /\ call.op \in {"FirmwareVersion", "Reset"})
            => LeadThenZeros(featureReport, FeaturePrefix(call.op))
       /\ (call.sent /\ call.ret = "nil" /\ call.op = "SetBrightness")
            => LeadThenZeros(featureReport,
                             Append(FeaturePrefix("SetBrightness"), Min(call.p, 100)))

\* C20 witness: on the XL, SetBrightness(57) has returned nil and the report
\* is 03 08 39 and 29 zero bytes.
C20_Witness ==
    /\ model = "XL"
    /\ call.op = "SetBrightness" /\ call.p = 57 /\ call.done /\ call.ret = "nil"
    /\ featureReport = <<3, 8, 57>> \o Zeros(29)

----------------------------------------------------------------------------
(* Claims about the key index translation.                                 *)

\* C21: key index translation is an involution.  For every model and every
\* index i in [0, columns*rows), translating i twice gives i; on the
\* right-to-left profile the translation of i lies in the row of i, at column
\* c-1-(i mod c), and within [0, columns*rows).
C21_TranslateInvolution ==
    (stack["caller"] # <<>> /\ At("caller", "translateKeyIndex", "done")
       /\ Top("caller").index < d.Columns * d.Rows)
    => LET f == Top("caller")
           c == d.Columns
       IN  /\ f.twice = f.index
           /\ d.translateKeyIndex = "translateRightToLeft"
                => /\ f.once \div c = f.index \div c
                   /\ f.once % c = c - 1 - (f.index % c)
           /\ f.once \in 0..(d.Columns * d.Rows - 1)

\* C21 witness: on the Original, index 5 (row 1, column 0) was translated to
\* index 9 (row 1, column 4) and back.
C21_Witness ==
    /\ model = "Original"
    /\ stack["caller"] # <<>>
    /\ At("caller", "translateKeyIndex", "done")
    /\ Top("caller").index = 5
    /\ Top("caller").once = 9
    /\ Top("caller").twice = 5

----------------------------------------------------------------------------
(* Claims about the touch strip image on a device without a touch strip.   *)

\* C22: a SetTouchScreenImage call on a model other than the Plus that has
\* ended has returned an error value (it has not panicked), and has handed
\* no output report to the transport.
C22_TouchlessUnsupported ==
    (model # "Plus" /\ call.op = "SetTouchScreenImage" /\ call.done)
    => /\ call.ret = "err"
       /\ frames.writes = <<>>

----------------------------------------------------------------------------
(* Claims about the button reports of the Plus.                            *)

\* C23: on the Plus, a step of the button loop over a report that carries the
\* eight button bytes and a zero after them emits at most an event with index
\* in 0..7 and changes key_state in 0..7 only: key_state[8] and above (the knob
\* presses) are left as they are.
C23_ButtonReportKeepsKnobs ==
    [][ (stack["worker"] # <<>> /\ At("worker", "readKeysForMultipleInputTypes", "buttons")
           /\ Top("worker").inputBuffer[InputBufferLen] = 0)
        => /\ \A k \in 8..(Len(keyState) - 1) : keyState'[k + 1] = keyState[k + 1]
           /\ emitted' # emitted
                => emitted'[Len(emitted')].Index \in 0..7 ]_vars

----------------------------------------------------------------------------
(* Claims about the frames of SetImage.                                    *)

\* C24: every frame of SetImage the transport accepted has exactly
\* image_page_size bytes and holds only zero bytes after the header and the
\* payload of its page.
C24_FramesZeroPadded ==
    (call.op = "SetImage" /\ frames.writes # <<>>
       /\ frames.writes[Len(frames.writes)].ok)
    => /\ Len(written) = d.imagePageSize
       /\ \A i \in 1..Len(written) :
            i > d.imagePageHeaderSize + frames.writes[Len(frames.writes)].length
              => written[i] = 0

----------------------------------------------------------------------------
(* Claims about reports of unknown type or usage.                          *)

\* The worker of the Plus is between the read of an ill-formed report and the
\* read of the next report.
IllFormedInHand ==
    /\ stack["worker"] # <<>>
    /\ Top("worker").fn = "readKeysForMultipleInputTypes"
    /\ Top("worker").pc # "read"
    /\ Top("worker").inputBuffer \in IllFormedReports

\* C25: ill-formed Plus reports are skipped silently.  Every step the worker
\* takes on a report of unknown type, a knob report of unknown usage or a
\* touch report of unknown usage emits no event and leaves key_state as it
\* was, and the worker stays in its loop with the event channel open.
C25_IllFormedSkipped ==
    [][IllFormedInHand
         => /\ emitted' = <<>>
            /\ keyState' = keyState
            /\ ~kchClosed'
            /\ stack'["worker"] # <<>>
            /\ Top("worker")'.fn = "readKeysForMultipleInputTypes"]_vars

----------------------------------------------------------------------------
(* Claims about the input worker and Sleep().                              *)

\* C26: no event while asleep.  Whenever the input worker sends an event on
\* the event channel, asleep is false.
C26_NoEventAsleep ==
    [][Len(emitted') > Len(emitted) => ~asleep]_vars

----------------------------------------------------------------------------
(* Claims about the sleep lock.                                            *)

\* C27: every call of Sleep() and of Wake() eventually returns, whatever
\* asleep, the brightness and the fade duration are when it begins.
C27_SleepWakeReturn ==
    (call.op \in {"Sleep", "Wake"} /\ ~call.done) ~> call.done

----------------------------------------------------------------------------
(* Claims about Sleep() and Wake() on a device already in that state.     *)

\* C28: a Sleep() called on a device that is already asleep leaves
\* pre_sleep_brightness as it was, in every step it takes.
C28_SleepAsleepKeepsSnapshot ==
    [][(call.op = "Sleep" /\ ~call.done /\ call.asleep0)
         => preSleepBrightness' = preSleepBrightness]_vars

\* C29: a Wake() called on a device that is not asleep leaves the brightness
\* in memory as it was and, once a brightness has been written, the brightness
\* last written to the transport too, in every step it takes.
C29_WakeAwakeKeepsBrightness ==
    [][(call.op = "Wake" /\ ~call.done /\ ~call.asleep0)
         => /\ brightness' = brightness
            /\ WireBrightness # -1 => WireBrightness' = WireBrightness]_vars

----------------------------------------------------------------------------
(* Claims about the report that wakes the device.                          *)

\* C30: when the input worker has swallowed the report that woke the device
\* and is about to read the next report, every entry of key_state is zero,
\* under both parsers.
C30_WakeClearsKeyState ==
    (/\ stack["worker"] # <<>>
     /\ Top("worker").fn \in {"readKeysForButtonsOnlyInput", "readKeysForMultipleInputTypes"}
     /\ Top("worker").pc = "read"
     /\ Top("worker").woke)
    => \A k \in 1..Len(keyState) : keyState[k] = 0

----------------------------------------------------------------------------
(* Claims about the sequence of events of one key.                         *)

\* The holdable events sent before event j for the index of event j.
EarlierOfKey(j) ==
    { i \in 1..(j - 1) : emitted[i].Holdable /\ emitted[i].Index = emitted[j].Index }

\* C31: with key bytes of 0 and 1 only, the holdable events of one index
\* alternate pressed, released, pressed, ..., beginning with pressed: the
\* first is a press, and every later one differs from the one before it.
C31_EventsAlternate ==
    \A j \in 1..Len(emitted) :
        emitted[j].Holdable
        => emitted[j].Pressed =
             (\/ EarlierOfKey(j) = {}
              \/ ~emitted[CHOOSE i \in EarlierOfKey(j) :
                              \A h \in EarlierOfKey(j) : h <= i].Pressed)

----------------------------------------------------------------------------
(* Claims about a transport error during a fade.                           *)

\* The caller's Fade has the error of its SetBrightness step in hand.
FadeStepFailed ==
    At("caller", "Fade", "tick") /\ ret["caller"] = "err"

\* The caller's current call has returned the error, with the sleep lock free.
ReturnedError ==
    /\ stack["caller"] = <<>>
    /\ call.done /\ call.ret = "err"
    /\ sleepMutex = Unlocked

\* C32 as stated: a transport error on a fade step does not abort the fade,
\* which proceeds to the step of the next tick.
C32_FadeErrorSwallowed ==
    [][FadeStepFailed
         => /\ Len(stack'["caller"]) = Len(stack["caller"])
            /\ Top("caller")'.pc = "loop"]_vars

\* C32: a transport error on a fade step aborts the fade.  Fade returns the
\* error to its caller with the brightness as the failed step left it; a
\* Sleep() that gets the error returns it with asleep as it was, and a Wake()
\* that gets it returns it without a further write.
C32_FadeErrorAborts ==
    [][/\ FadeStepFailed
            => /\ stack'["caller"] = SubSeq(stack["caller"], 1, Len(stack["caller"]) - 1)
               /\ Len(stack["caller"]) > 1 => ret'["caller"] = "err"
               /\ brightness' = brightness
               /\ featureReport' = featureReport
       /\ (At("caller", "Sleep", "faded") /\ ret["caller"] = "err")
            => asleep' = asleep /\ ReturnedError'
       /\ (At("caller", "Wake", "faded") /\ ret["caller"] = "err")
            => /\ idleTime' = idleTime
               /\ featureReport' = featureReport
               /\ ~asleep' /\ ReturnedError']_vars

\* A Sleep() begun awake has got the error of a fade step: the brightness is
\* above zero, the device is awake.
C32_Witness ==
    /\ call.op = "Sleep" /\ call.done /\ call.ret = "err" /\ ~call.asleep0
    /\ ~asleep
    /\ brightness > 0

----------------------------------------------------------------------------
(* Claims about the decision of the sleep watcher.                         *)

\* The watcher's d.Sleep() has just been called.
WatcherCallsSleep ==
    /\ Len(stack["watcher"]) = 2
    /\ stack["watcher"][1].pc = "slept"
    /\ Top("watcher") = SleepFrame

\* C33: the decision of the sleep watcher.  The watcher reads the idle time
\* with the read side of the sleep lock held and no writer in, and keeps what
\* it read; at its check it calls Sleep() exactly when the idle time it read
\* has reached the timeout and asleep is false, and waits for the next tick
\* otherwise.
C33_WatcherDecision ==
    [][/\ At("watcher", "watcher", "since")
            => /\ "watcher" \in sleepMutex.r
               /\ sleepMutex.w = "none"
               /\ stack'["watcher"] # stack["watcher"]
                    => Top("watcher")'.since = idleTime
       /\ (At("watcher", "watcher", "check") /\ stack'["watcher"] # stack["watcher"])
            => IF ~asleep /\ Top("watcher").since >= Top("watcher").timeout
               THEN WatcherCallsSleep'
               ELSE /\ Len(stack'["watcher"]) = 1
                    /\ Top("watcher")'.pc = "select"]_vars

\* The watcher calls Sleep() on an awake device whose idle time it has read
\* as equal to the timeout.
C33_Witness ==
    /\ WatcherCallsSleep
    /\ Top("watcher").pc = "lock"
    /\ stack["watcher"][1].since = stack["watcher"][1].timeout
    /\ ~asleep

----------------------------------------------------------------------------
(* Claims about the goroutines of SetSleepTimeout.                         *)

\* The watchers that run and have not been cancelled.
LiveWatchers == { w \in Watchers : Running(w) /\ ~stack[w][1].done }

\* C34: the sleep timer.  At most one watcher that has not been cancelled
\* exists, and it is the one d.sleepCancel cancels; SetSleepTimeout(0) and the
\* cancelSleepTimer of Close() leave none; every watcher that has been
\* cancelled eventually returns; and with no watcher to cancel Close() leaves
\* the goroutines as they are.
C34_SleepTimer ==
    /\ [](/\ Cardinality(LiveWatchers) <= 1
          /\ \A w \in Watchers : SleepCancelIs(w) <=> w \in LiveWatchers)
    /\ [][/\ SetSleepTimeout(0) => LiveWatchers' = {}
          /\ At("caller", "Close", "cancel") /\ stack'["caller"] # stack["caller"]
               => /\ LiveWatchers' = {}
                  /\ LiveWatchers = {} => \A w \in Watchers : stack'[w] = stack[w]]_vars
    /\ \A w \in Watchers : (Running(w) /\ stack[w][1].done) ~> ~Running(w)

\* A watcher that was cancelled by the SetSleepTimeout that started the next
\* one is still inside its Sleep() while the new watcher waits for its tick.
C34_Witness ==
    /\ Running("watcher") /\ stack["watcher"][1].done
    /\ Len(stack["watcher"]) > 1
    /\ LiveWatchers = {"watcher2"}

----------------------------------------------------------------------------
(* Claims about Open().                                                     *)

\* C35: every Open() that succeeds leaves key_state all zero and of length
\* key_count, also when the Device is opened again after a Close() that
\* ended a session in which a key or a knob was left pressed.
C35_OpenZeroesKeyState ==
    [][Open(TRUE) => keyState' = Zeros(d.Keys)]_vars

----------------------------------------------------------------------------
(* Claims about the index of an event and the index of SetImage.           *)

\* C36: on every model, when the event the worker sent for the button at
\* raw report position r is answered with SetImage(e.Index, img), the key
\* field of every page header written is r in the Rev2 header and r + 1 in
\* the Rev1 and Mini headers.
C36_IndexSpacesAgree ==
    (call.op = "SetImage" /\ written # <<>>)
    => IF d.imagePageHeader = "rev2ImagePageHeader"
       THEN written[3] = call.p.pos
       ELSE written[6] = call.p.pos + 1

\* The Original has answered the press of the button at raw position 0, whose
\* event has index 4, and the header written last has key byte 1.
C36_Witness ==
    /\ model = "Original"
    /\ call.op = "SetImage" /\ call.done /\ call.ret = "nil"
    /\ call.p.pos = 0 /\ call.p.index = 4
    /\ written[6] = 1

----------------------------------------------------------------------------
(* Claims about the Rev1 and the Mini page header.                         *)

\* C37: for the same page, key and last-page flag the Rev1 and the Mini
\* header are both 16 bytes and differ in the page byte and nowhere else:
\* Rev1 carries page + 1 and Mini carries page; both start 02 01, carry the
\* last-page flag at byte 4 and key + 1 (a byte) at byte 5, and the last 10
\* bytes are zero.  Key 0 of the Original, first page: 02 01 01 00 00 05;
\* key 2 of the Mini, first page: 02 01 00 00 00 03.
C37_Rev1AndMiniHeaders ==
    (CallerStack # <<>> /\ CallerStack[1].fn = "imagePageHeader" /\ CallerStack[1].pc = "done")
    => LET f == CallerStack[1]
       IN  /\ Len(f.rev1) = 16 /\ Len(f.mini) = 16
           /\ \A i \in 1..16 : (f.rev1[i] # f.mini[i]) <=> (i = 3)
           /\ f.rev1[3] = f.page + 1
           /\ f.mini[3] = f.page
           /\ \A h \in {f.rev1, f.mini} :
                /\ h[1] = 2 /\ h[2] = 1 /\ h[4] = 0
                /\ h[5] = (IF f.lastPage THEN 1 ELSE 0)
                /\ h[6] = Uint8(f.keyIndex + 1)
                /\ \A i \in 7..16 : h[i] = 0
           /\ (model = "Original" /\ f.index = 0 /\ f.page = 0 /\ ~f.lastPage)
                => SubSeq(f.rev1, 1, 6) = <<2, 1, 1, 0, 0, 5>>
           /\ (model = "Mini" /\ f.index = 2 /\ f.page = 0 /\ ~f.lastPage)
                => SubSeq(f.mini, 1, 6) = <<2, 1, 0, 0, 0, 3>>

\* Both headers of the last page, page index 1, of key 0 of the Original.
C37_Witness ==
    /\ model = "Original"
    /\ CallerStack # <<>> /\ CallerStack[1].fn = "imagePageHeader"
    /\ CallerStack[1].pc = "done"
    /\ CallerStack[1].index = 0 /\ CallerStack[1].page = 1 /\ CallerStack[1].lastPage
    /\ CallerStack[1].rev1 = <<2, 1, 2, 0, 1, 5, 0, 0, 0, 0, 0, 0, 0, 0, 0, 0>>
    /\ CallerStack[1].mini = <<2, 1, 1, 0, 1, 5, 0, 0, 0, 0, 0, 0, 0, 0, 0, 0>>

----------------------------------------------------------------------------
(* Claims about the values Fade passes to SetBrightness.                   *)

\* Fade passes a value to SetBrightness in this step.
FadeWrites ==
    /\ At("caller", "Fade", "loop")
    /\ Len(stack'["caller"]) = Len(stack["caller"]) + 1

\* The value passed.
FadeWritten == stack'["caller"][Len(stack'["caller"])].percent

\* n times the current position start + k*step of the running Fade, with
\* step = (end - start) / n and n = duration / fade_tick.
FadePosition == Top("caller").start * Top("caller").n
                    + Top("caller").k * (Top("caller").end - Top("caller").start)

C39_FadeWalk ==
    /\ [][FadeWrites
            => LET f == Top("caller")
               IN  /\ f.start # f.end
                   /\ f.duration >= fadeDelay
                   /\ f.k = 0 => FadeWritten = f.start
                   /\ f.start < f.end
                        => /\ FadeWritten < f.end
                           /\ f.k > 0 => brightness <= FadeWritten
                   /\ f.start > f.end
                        => /\ FadeWritten > f.end
                           /\ f.k > 0 => brightness >= FadeWritten]_vars
    /\ (stack["caller"] # <<>>) ~> (stack["caller"] = <<>>)

\* Fade(100, 0, 3 ticks) has passed 100, 66 and 33, its last value.
C39_Witness ==
    /\ At("caller", "Fade", "tick")
    /\ Top("caller").start = 100 /\ Top("caller").end = 0
    /\ Top("caller").n = 3 /\ Top("caller").k = 2
    /\ brightness = 33
    /\ featureReport = sendFeatureReport(BrightnessReport(33))

----------------------------------------------------------------------------
(* Claims about the input worker and the sleep lock.                       *)

\* The worker is in its own loop, at the transport read or in a loop that
\* sends on the event channel, where it can block.
WorkerCanBlock ==
    /\ Len(stack["worker"]) = 1
    /\ Top("worker").fn \in {"readKeysForButtonsOnlyInput", "readKeysForMultipleInputTypes"}
    /\ Top("worker").pc \in {"read", "diff", "buttons", "knobs", "touch"}

\* The goroutines that wait for the sleep lock: in Sleep(), in Wake(), and in
\* a SetBrightness that found the device asleep.
WaitsForLock(t) ==
    \/ At(t, "Sleep", "lock")
    \/ At(t, "Wake", "lock")
    \/ At(t, "SetBrightness", "lock")

\* C40: the input worker does not hold the sleep lock where it reads from the
\* transport or sends on the event channel; when it stands there and another
\* goroutine waits for the lock in Sleep(), Wake() or an asleep
\* SetBrightness, the lock is free or held by a goroutine other than the
\* worker.
C40_WorkerBlocksUnlocked ==
    WorkerCanBlock
    => /\ sleepMutex.w # "worker"
       /\ "worker" \notin sleepMutex.r
       /\ \A t \in DOMAIN stack :
            WaitsForLock(t) => (MutexFree \/ sleepMutex.w \in (DOMAIN stack) \ {"worker"})

\* The worker is about to send the event of a change on the channel while the
\* caller is inside Sleep() and holds the lock.
C40_Witness ==
    /\ WorkerCanBlock
    /\ Top("worker").pc \in {"diff", "buttons", "knobs"}
    /\ emitted # <<>>
    /\ sleepMutex.w = "caller"
    /\ stack["caller"] # <<>> /\ stack["caller"][1].fn = "Sleep"

============================================================================
